---------------------------- MODULE Spec2Model ----------------------------
(***************************************************************************)
(* Model of package vcdbtree of renorris/vintagestory-restic: the position *)
(* codec, player UID sanitization, Split, Combine and the incremental      *)
(* cache SplitWithCache.                                                   *)
(*                                                                         *)
(* Representation.  TLC's integers are 32 bits wide, so a 64-bit ChunkPos  *)
(* is the tuple <<w3, w2, w1, w0>> of its four 16-bit words, most          *)
(* significant first.  A path is the sequence of its components below the  *)
(* base directory, a blob a sequence of bytes.                             *)
(***************************************************************************)
EXTENDS Integers, Sequences, FiniteSets, TLC

VARIABLES
    \* -- position codec harness
    position,       \* the ChunkPos handed to the extractors
    wantX, wantZ,   \* the signed 21-bit fields the position was packed from
    chunkX, chunkZ, \* results of extractChunkX / extractChunkZ
    shardPath,      \* result of GetShardedPath
    codecPc,
    \* -- player UID harness
    playeruid,      \* the UID handed to sanitizePlayerUID
    safeUID,        \* its file-system-safe form
    restoredUID,    \* unsanitizePlayerUID of the safe form
    uidPc,
    \* -- incremental cache
    db,             \* the source: per table, the rows as key -> data
    cache,          \* the cache directory
    runs,           \* number of SplitWithCache calls so far
    written,        \* results of the last SplitWithCache call
    skipped,
    err,
    lastDb,         \* the source as the last call read it
    prevDb,         \* the source as the call before the last read it
    edits,          \* row changes of the source since the last call
    faults,         \* I/O failures injected so far
    \* -- Split and Combine
    source,         \* the store handed to Split
    tree,           \* the directory Split writes and Combine reads
    restored,       \* the store Combine creates
    tree2,          \* the directory the restored store is split into
    treeErr,        \* error of the last Split or Combine call
    planted,        \* files put into the tree by something other than Split
    dropped,        \* root directories removed from the tree
    treePc,
    \* -- one backup cycle of the Manager
    config,         \* the Manager's fields and the skipPlayerCheck argument
    gameData,       \* GameDataDir: the auxiliary items present, serverconfig.json
    backups,        \* GameDataDir/Backups: name -> kind, modification time, lock
    staging,        \* StagingDir: per item "absent", "old" or "current"
    cyclePc,        \* the statement performBackup is at
    cycleErr,       \* what performBackup returned
    log,            \* the calls performBackup has made, in order
    saveFileName,   \* result of getSaveFileName
    beforeGenbackup,\* time recorded before the command is sent
    now,            \* the clock
    ctxDone,        \* backupCtx is done: timed out or cancelled
    tickReady,      \* the poll ticker has a tick to deliver
    polls,          \* iterations of the poll loop so far
    backupFile,     \* result of waitForBackupFile
    commands,       \* the commands run so far, each with its exit code
    \* -- the scheduling loop and the boot-time backup
    loopPc,         \* where runLoop is: "off", "select", "runBackup", "exited"
    ticker,         \* ticker.C holds a tick
    cancelled,      \* the Manager's context is cancelled
    hasBooted,      \* Server.hasBooted
    cycles,         \* the invocations of performBackup, in the order started
    callbacks,      \* the calls of OnBackupStart and OnBackupComplete, in order
    stopPc,         \* where the caller of Manager.Stop is
    \* -- the player checker
    playerCount,    \* PlayerChecker.playerCount
    playersOnlineAtLastCheck,
    line,           \* the line HandleOutput was last called with
    results,        \* what the calls of ShouldBackup returned, in order
    visited,        \* a player has been counted online since the last call
    \* -- the command queue
    started,        \* CommandQueue.started
    MinDelay,       \* CommandQueue.MinDelay
    lastSentTime,   \* CommandQueue.lastSentTime
    gen,            \* how many times Start has made a queue, a done channel and a loop
    queue,          \* the buffer of each queue channel made
    closed,         \* whether each done channel made is closed
    loops,          \* the processLoop goroutine of each Start
    submitters,     \* the goroutines calling Submit
    ctl,            \* the goroutine calling Start and Stop
    clock,          \* the time
    nextCmd,        \* the commands Submit was called with so far
    accepted,       \* the commands that entered a queue channel, in order
    sends,          \* the calls of Sender.SendCommand, in order
    \* -- SyncDir
    syncSrc,        \* the tree below src
    syncDst,        \* the tree below dst
    syncOld,        \* the tree below dst when SyncDir was called
    syncRet,        \* what SyncDir returned
    \* -- the server's boot detection
    readers,        \* the readOutput goroutine of each stream
    bootOnce,       \* Server.bootOnce
    booted,         \* Server.hasBooted
    onBootCalls,    \* the calls of Server.OnBoot: who made it, HasBooted() then
    \* -- a cycle's /genbackup and its wait for the completion line
    sender,         \* what Manager.Server is: the Server or the CommandQueue
    queueAccepts,   \* the CommandQueue is started and its channel has room
    serverDone,     \* Server.done is closed: the process is not running
    waitPc,         \* where the cycle is
    delivered,           \* the command was written to the server's stdin
    outputHandlers, \* the handler of WaitForBackupComplete is registered
    matchCh,        \* the handler's channel holds a match
    waitCtxDone,    \* the timeout of the wait has passed
    printed,        \* lines the server has printed
    completed,      \* a completion line was printed after the command, in time
    waitRet         \* what the cycle returned

codecVars == <<position, wantX, wantZ, chunkX, chunkZ, shardPath, codecPc>>
uidVars == <<playeruid, safeUID, restoredUID, uidPc>>
cacheVars ==
    <<db, cache, runs, written, skipped, err, lastDb, prevDb, edits, faults>>
treeVars == <<source, tree, restored, tree2, treeErr, planted, dropped, treePc>>

cycleVars ==
    <<config, gameData, backups, staging, cyclePc, cycleErr, log, saveFileName,
      beforeGenbackup, now, ctxDone, tickReady, polls, backupFile, commands>>

schedVars == <<loopPc, ticker, cancelled, hasBooted, cycles, callbacks, stopPc>>

playerVars ==
    <<playerCount, playersOnlineAtLastCheck, line, results, visited>>

queueVars ==
    <<started, MinDelay, lastSentTime, gen, queue, closed, loops, submitters,
      ctl, clock, nextCmd, accepted, sends>>

syncVars == <<syncSrc, syncDst, syncOld, syncRet>>

bootVars == <<readers, bootOnce, booted, onBootCalls>>

waitVars ==
    <<sender, queueAccepts, serverDone, waitPc, delivered, outputHandlers, matchCh,
      waitCtxDone, printed, completed, waitRet>>

serviceVars == <<schedVars, playerVars, queueVars, syncVars, bootVars, waitVars>>

vars == <<codecVars, uidVars, cacheVars, treeVars, cycleVars, serviceVars>>

----------------------------------------------------------------------------
(* Bounds of the model *)

\* positions are sampled within this distance of the ends and the middle of
\* the signed 21-bit range
SampleRadius == 1

\* longest player UID of the UID harness
MaxUidLen == 3

\* most rows the source holds at a time
MaxRows == 2

\* most row changes of the source between two SplitWithCache calls
MaxEdits == 1

\* calls of SplitWithCache on one cache directory
MaxRuns == 2

\* most I/O failures in a behaviour
MaxFaults == 1

\* iterations of the poll loop of waitForBackupFile, and clock readings
MaxPolls == 2
MaxTime == 2
MaxCycles == 2

\* pieces of a line of server output, players counted, calls of ShouldBackup
MaxLineLen == 3
MaxPlayers == 2
MaxCalls == 4

\* calls of CommandQueue.Start, commands submitted, slots of the queue channel
MaxStarts == 2
MaxCommands == 3
QueueCap == 2

\* lines of output read from each stream of the server
MaxLines == 3

----------------------------------------------------------------------------
(* ChunkPos bit fields: part_005 lines 33-39 *)

chunkXMask == 2097151
chunkZShift == 27
chunkZMask == 2097151
signBit21 == 1048576

WordBase == 2 ^ 16

\* position & chunkXMask: bits 0-20 are word w0 and the low 5 bits of w1
MaskLow21(p) == (p[3] % ((chunkXMask + 1) \div WordBase)) * WordBase + p[4]

\* (position >> chunkZShift) & chunkZMask: bits 27-31 are the high 5 bits of
\* w1, bits 32-47 are w2
ShiftMask21(p) ==
    (p[2] * (2 ^ (32 - chunkZShift)) + (p[3] \div (2 ^ (chunkZShift - 16))))
        % (chunkZMask + 1)

\* raw & signBit21 != 0
SignBitSet(raw) == (raw \div signBit21) % 2 = 1

\* raw |= signExtend21, read as a signed integer: all bits above bit 20 set
SignExtend21(raw) == raw - (chunkXMask + 1)

NoSignExtendX(p) == MaskLow21(p)

extractChunkX(p) ==
    LET raw == MaskLow21(p)
    IN  IF SignBitSet(raw) THEN SignExtend21(raw) ELSE raw

extractChunkZ(p) ==
    LET raw == ShiftMask21(p)
    IN  IF SignBitSet(raw) THEN SignExtend21(raw) ELSE raw

----------------------------------------------------------------------------
(* Number formatting *)

Digits == <<"0", "1", "2", "3", "4", "5", "6", "7", "8", "9">>
HexDigits == <<"0", "1", "2", "3", "4", "5", "6", "7", "8", "9",
               "a", "b", "c", "d", "e", "f">>

RECURSIVE FormatNat(_)
FormatNat(n) ==
    IF n < 10 THEN Digits[n + 1]
    ELSE FormatNat(n \div 10) \o Digits[(n % 10) + 1]

\* strconv.FormatInt(v, 10)
FormatInt(v) == IF v < 0 THEN "-" \o FormatNat(-v) ELSE FormatNat(v)

\* four hex digits of one 16-bit word
HexWord(w) ==
    HexDigits[(w \div 4096) + 1] \o HexDigits[((w \div 256) % 16) + 1]
        \o HexDigits[((w \div 16) % 16) + 1] \o HexDigits[(w % 16) + 1]

\* fmt.Sprintf("%016x", uint64(position))
Hex16(p) == HexWord(p[1]) \o HexWord(p[2]) \o HexWord(p[3]) \o HexWord(p[4])

BinExt == ".bin"

\* filepath.Join(baseDir, tablePlural, zDir, xDir, filename), below baseDir
GetShardedPath(tablePlural, p) ==
    << tablePlural, FormatInt(extractChunkZ(p)), FormatInt(extractChunkX(p)),
       Hex16(p) \o BinExt >>

\* the i-th character of a string
Char(s, i) == SubSeq(s, i, i)
Rest(s) == SubSeq(s, 2, Len(s))

----------------------------------------------------------------------------
(* Harness of the position codec: positions packed from sampled fields *)

Min21 == -(2 ^ 20)
Max21 == (2 ^ 20) - 1

Sample21 ==
    (Min21 .. (Min21 + SampleRadius)) \cup ((-SampleRadius) .. SampleRadius)
        \cup ((Max21 - SampleRadius) .. Max21) \cup {-52196, 597, 22136, 426880}

\* the 21-bit two's complement pattern of a signed value
Enc21(v) == IF v < 0 THEN v + 2 ^ 21 ELSE v

\* bits 21-26 (guard, dimLow) and bits 48-63 (reserved, chunkY, dimHigh,
\* guard) are opaque to the codec
OtherLow == {0, 21, 63}
OtherHigh == {0, 3071, 65535}

Pack(x, z, low6, high16) ==
    << high16,
       Enc21(z) \div (2 ^ 5),
       (Enc21(z) % (2 ^ 5)) * (2 ^ 11) + low6 * (2 ^ 5) + Enc21(x) \div WordBase,
       Enc21(x) % WordBase >>

NoPath == << >>

CodecIdle ==
    /\ position = <<0, 0, 0, 0>>
    /\ wantX = 0
    /\ wantZ = 0
    /\ chunkX = 0
    /\ chunkZ = 0
    /\ shardPath = NoPath
    /\ codecPc = "off"

CodecInit ==
    /\ \E x \in Sample21, z \in Sample21, l \in OtherLow, h \in OtherHigh :
          /\ position = Pack(x, z, l, h)
          /\ wantX = x
          /\ wantZ = z
    /\ chunkX = 0
    /\ chunkZ = 0
    /\ shardPath = NoPath
    /\ codecPc = "input"

Extract ==
    /\ codecPc = "input"
    /\ chunkX' = extractChunkX(position)
    /\ chunkZ' = extractChunkZ(position)
    /\ shardPath' = GetShardedPath("chunks", position)
    /\ codecPc' = "extracted"
    /\ UNCHANGED <<position, wantX, wantZ>>

----------------------------------------------------------------------------
(* Player UID sanitization: part_005 lines 223-237 *)

\* strings.ReplaceAll(s, old, new) for one-character old and new
RECURSIVE ReplaceAll(_, _, _)
ReplaceAll(s, old, new) ==
    IF Len(s) = 0 THEN s
    ELSE (IF Char(s, 1) = old THEN new ELSE Char(s, 1))
             \o ReplaceAll(Rest(s), old, new)

\* strings.TrimRight(s, c) for a one-character cutset
RECURSIVE TrimRight(_, _)
TrimRight(s, c) ==
    IF Len(s) > 0 /\ Char(s, Len(s)) = c
      THEN TrimRight(SubSeq(s, 1, Len(s) - 1), c)
    ELSE s

sanitizePlayerUID(uid) ==
    TrimRight(ReplaceAll(ReplaceAll(uid, "+", "-"), "/", "_"), "=")

unsanitizePlayerUID(safe) == ReplaceAll(ReplaceAll(safe, "-", "+"), "_", "/")

UidAlphabet == {"A", "+", "/", "=", "-", "_"}

RECURSIVE StringsUpTo(_, _)
StringsUpTo(S, n) ==
    IF n = 0 THEN {""}
    ELSE LET shorter == StringsUpTo(S, n - 1)
         IN  shorter \cup {u \o c : u \in shorter, c \in S}

UIDs == StringsUpTo(UidAlphabet, MaxUidLen)

\* a UID that does not otherwise use the characters of the safe alphabet
PlainUID(uid) == \A i \in 1 .. Len(uid) : Char(uid, i) \notin {"-", "_"}

UidIdle ==
    /\ playeruid = ""
    /\ safeUID = ""
    /\ restoredUID = ""
    /\ uidPc = "off"

UidInit ==
    /\ playeruid \in UIDs
    /\ safeUID = ""
    /\ restoredUID = ""
    /\ uidPc = "input"

Sanitize ==
    /\ uidPc = "input"
    /\ safeUID' = sanitizePlayerUID(playeruid)
    /\ uidPc' = "sanitized"
    /\ UNCHANGED <<playeruid, restoredUID>>

Unsanitize ==
    /\ uidPc = "sanitized"
    /\ restoredUID' = unsanitizePlayerUID(safeUID)
    /\ uidPc' = "restored"
    /\ UNCHANGED <<playeruid, safeUID>>

----------------------------------------------------------------------------
(* The file system below the base directory.  files maps the path of every  *)
(* regular file to its content and modification time; dirs is the set of   *)
(* directories, << >> being the base directory itself.  Modification times *)
(* are kept relative to the last SplitWithCache call: 1 for a file written *)
(* during that call, 0 for a file last written before it began.            *)

Dir(p) == SubSeq(p, 1, Len(p) - 1)
Base(p) == p[Len(p)]
Prefixes(p) == {SubSeq(p, 1, k) : k \in 0 .. Len(p)}
IsUnder(d, p) == Len(d) < Len(p) /\ SubSeq(p, 1, Len(d)) = d

\* strings.HasSuffix
HasSuffix(name, suffix) ==
    /\ Len(name) >= Len(suffix)
    /\ SubSeq(name, Len(name) - Len(suffix) + 1, Len(name)) = suffix

Restrict(f, S) == [q \in S |-> f[q]]

\* os.MkdirAll fails when a component of the path is a regular file
MkdirAllOk(fs, d) == \A q \in Prefixes(d) : q \notin DOMAIN fs.files
MkdirAll(fs, d) == [fs EXCEPT !.dirs = @ \cup Prefixes(d)]

\* os.WriteFile creates or truncates the file; it fails when the parent is
\* missing or the path is a directory
WriteFileOk(fs, p) == Dir(p) \in fs.dirs /\ p \notin fs.dirs
WriteFile(fs, p, data, t) ==
    [fs EXCEPT !.files =
        [q \in DOMAIN fs.files \cup {p} |->
            IF q = p THEN [data |-> data, mtime |-> t] ELSE fs.files[q]]]

\* os.Remove of a regular file, of an empty directory
RemoveNothing(fs, p) == fs
RemoveFile(fs, p) == [fs EXCEPT !.files = Restrict(@, DOMAIN @ \ {p})]
RemoveDir(fs, d) == [fs EXCEPT !.dirs = @ \ {d}]

\* os.ReadDir: the entries of a directory
ChildDirs(fs, d) == {e \in fs.dirs : Len(e) = Len(d) + 1 /\ IsUnder(d, e)}
ChildFiles(fs, d) == {e \in DOMAIN fs.files : Len(e) = Len(d) + 1 /\ IsUnder(d, e)}
Entries(fs, d) == ChildDirs(fs, d) \cup ChildFiles(fs, d)

\* byte order of the characters that occur in names
AsciiOrder ==
    << "+", "-", ".", "/", "0", "1", "2", "3", "4", "5", "6", "7", "8", "9",
       "=", "A", "B", "_", "a", "b", "c", "d", "e", "f", "g", "h", "i", "j",
       "k", "l", "m", "n", "o", "p", "q", "r", "s", "t", "u", "v", "w", "x",
       "y", "z" >>
Rank(c) == CHOOSE i \in 1 .. Len(AsciiOrder) : AsciiOrder[i] = c

\* a < b as Go compares strings
RECURSIVE LessName(_, _)
LessName(a, b) ==
    IF Len(b) = 0 THEN FALSE
    ELSE IF Len(a) = 0 THEN TRUE
    ELSE IF Char(a, 1) = Char(b, 1) THEN LessName(Rest(a), Rest(b))
    ELSE Rank(Char(a, 1)) < Rank(Char(b, 1))

\* p is visited before q by filepath.Walk, which reads each directory in
\* the order of its entries' names
RECURSIVE WalkBefore(_, _)
WalkBefore(p, q) ==
    IF Len(q) = 0 THEN FALSE
    ELSE IF Len(p) = 0 THEN TRUE
    ELSE IF p[1] = q[1] THEN WalkBefore(Tail(p), Tail(q))
    ELSE LessName(p[1], q[1])

RECURSIVE WalkOrder(_)
WalkOrder(S) ==
    IF S = {} THEN << >>
    ELSE LET first == CHOOSE m \in S : \A q \in S \ {m} : WalkBefore(m, q)
         IN  <<first>> \o WalkOrder(S \ {first})

----------------------------------------------------------------------------
(* SplitWithCache: part_005 lines 476-782 *)

\* SQL NULL, scanned into a nil slice; distinct from every byte string
Null == <<-1>>

Tables == {"chunk", "mapchunk", "mapregion", "gamedata", "playerdata"}

\* a table without rows, a store without rows
NoRows == [k \in {} |-> Null]
EmptyDb == [t \in Tables |-> NoRows]

rootDirs == {"chunks", "mapchunks", "mapregions", "gamedata", "playerdata"}
subdirs == <<"chunks", "mapchunks", "mapregions", "gamedata", "playerdata">>

SizeOnlyMatch(fs, filePath, data) ==
    /\ filePath \in DOMAIN fs.files
    /\ Len(fs.files[filePath].data) = Len(data)

NeverMatches(fs, filePath, data) == FALSE

ExistsOnlyMatch(fs, filePath, data) == filePath \in DOMAIN fs.files

\* os.Stat succeeds, the size equals len(data), and the bytes are equal
fileMatchesContent(fs, filePath, data) ==
    /\ filePath \in DOMAIN fs.files
    /\ Len(fs.files[filePath].data) = Len(data)
    /\ fs.files[filePath].data = data

\* the rows a table's loop does not skip, each with the path of its file
ShardedRows(tbl, subdir) ==
    { [key |-> k, path |-> GetShardedPath(subdir, k), data |-> tbl[k]] :
        k \in {k \in DOMAIN tbl : tbl[k] # Null} }

GamedataRows(tbl) ==
    { [key |-> k, path |-> <<"gamedata", FormatInt(k) \o BinExt>>, data |-> tbl[k]] :
        k \in {k \in DOMAIN tbl : tbl[k] # Null} }

\* rows is what SELECT playeruid, data returns
PlayerdataRowsOf(rows) ==
    { [key |-> r.key, path |-> <<"playerdata", sanitizePlayerUID(r.key) \o BinExt>>,
       data |-> r.data] :
        r \in {r \in rows : r.key # "" /\ r.data # Null} }

PlayerdataRows(tbl) ==
    PlayerdataRowsOf({[key |-> k, data |-> tbl[k]] : k \in DOMAIN tbl})

\* the orders in which a query without ORDER BY may return a set of rows
Orders(S) ==
    {o \in [1 .. Cardinality(S) -> S] :
        \A i, j \in 1 .. Cardinality(S) : i # j => o[i] # o[j]}

NoFault == [write |-> 0, remove |-> 0, tear |-> FALSE]

\* one iteration of a table's loop: record the path, skip the row when the
\* file matches, else (create the directory and) write the file.  fault
\* names the os.WriteFile call that fails, if any, and whether the failed
\* call had already truncated the file.
ProcessRow(st, row, mkdir, fault, t) ==
    LET st1 == [st EXCEPT !.expected = @ \cup {row.path}]
        fs1 == IF mkdir THEN MkdirAll(st.fs, Dir(row.path)) ELSE st.fs
    IN  IF fileMatchesContent(st.fs, row.path, row.data)
          THEN [st1 EXCEPT !.skipped = @ + 1]
        ELSE IF mkdir /\ ~MkdirAllOk(st.fs, Dir(row.path))
          THEN [st1 EXCEPT !.err = "mkdir"]
        ELSE IF ~WriteFileOk(fs1, row.path)
          THEN [st1 EXCEPT !.fs = fs1, !.err = "write"]
        ELSE IF st.writes + 1 = fault.write
          THEN [st1 EXCEPT !.err = "write",
                           !.fs = IF fault.tear
                                    THEN WriteFile(fs1, row.path, << >>, t)
                                    ELSE fs1]
        ELSE [st1 EXCEPT !.fs = WriteFile(fs1, row.path, row.data, t),
                         !.written = @ + 1,
                         !.writes = @ + 1]

RECURSIVE ProcessRows(_, _, _, _, _)
ProcessRows(st, rows, mkdir, fault, t) ==
    IF rows = << >> \/ st.err # "nil" THEN st
    ELSE ProcessRows(ProcessRow(st, Head(rows), mkdir, fault, t),
                     Tail(rows), mkdir, fault, t)

splitShardedTableWithCache(st, rows, fault, t) ==
    IF st.err # "nil" THEN st ELSE ProcessRows(st, rows, TRUE, fault, t)

\* gamedata and playerdata: the flat directory is created first
splitFlatTableWithCache(st, subdir, rows, fault, t) ==
    IF st.err # "nil" THEN st
    ELSE IF ~MkdirAllOk(st.fs, <<subdir>>) THEN [st EXCEPT !.err = "mkdir"]
    ELSE ProcessRows([st EXCEPT !.fs = MkdirAll(@, <<subdir>>)],
                     rows, FALSE, fault, t)

KeepsEveryDir(dir) == TRUE

\* the base name is one of the five root names
isRootSubdir(dir) == Base(dir) \in rootDirs

RECURSIVE cleanupEmptyDirs(_, _)
RECURSIVE CleanupEach(_, _)
\* remove the empty directories below dir, then dir itself if it is empty
\* and not a root
cleanupEmptyDirs(fs, dir) ==
    LET fs1 == CleanupEach(fs, ChildDirs(fs, dir))
    IN  IF Entries(fs1, dir) = {} /\ ~isRootSubdir(dir) THEN RemoveDir(fs1, dir)
        ELSE fs1

CleanupEach(fs, ds) ==
    IF ds = {} THEN fs
    ELSE LET d == CHOOSE d \in ds : TRUE
         IN  CleanupEach(cleanupEmptyDirs(fs, d), ds \ {d})

KeepsEveryFile(fs, path, expectedFiles) == FALSE

\* what the walk removes: a regular file named *.bin outside the expected set
IsStale(fs, path, expectedFiles) ==
    /\ path \in DOMAIN fs.files
    /\ HasSuffix(Base(path), BinExt)
    /\ path \notin expectedFiles

\* os.Remove of the stale files in walk order; fault names the call that fails
RECURSIVE RemoveStale(_, _, _)
RemoveStale(st, paths, fault) ==
    IF paths = << >> \/ st.err # "nil" THEN st
    ELSE IF st.removes + 1 = fault.remove THEN [st EXCEPT !.err = "remove"]
    ELSE RemoveStale([st EXCEPT !.fs = RemoveFile(@, Head(paths)),
                                !.removes = @ + 1],
                     Tail(paths), fault)

\* one root of cleanupStaleFiles: skipped when missing, else walked and then
\* cleared of empty directories
CleanupRoot(st, subdir, fault) ==
    IF st.err # "nil" THEN st
    ELSE IF <<subdir>> \notin st.fs.dirs /\ <<subdir>> \notin DOMAIN st.fs.files
      THEN st
    ELSE LET stale == {p \in DOMAIN st.fs.files :
                          /\ p = <<subdir>> \/ IsUnder(<<subdir>>, p)
                          /\ IsStale(st.fs, p, st.expected)}
             st1 == RemoveStale(st, WalkOrder(stale), fault)
         IN  IF st1.err # "nil" THEN st1
             ELSE IF <<subdir>> \in DOMAIN st1.fs.files
               THEN [st1 EXCEPT !.err = "readdir"]
             ELSE [st1 EXCEPT !.fs = cleanupEmptyDirs(@, <<subdir>>)]

RECURSIVE CleanupRoots(_, _, _)
CleanupRoots(st, roots, fault) ==
    IF roots = << >> THEN st
    ELSE CleanupRoots(CleanupRoot(st, Head(roots), fault), Tail(roots), fault)

cleanupStaleFiles(st, fault) == CleanupRoots(st, subdirs, fault)

\* the whole call on cache directory fs at time t; ord gives, per table, the
\* rows of the source in the order in which the table's query returns them
CleansUpAfterFailure(fs, ord, fault, t) ==
    LET st0 == [fs |-> MkdirAll(fs, << >>), written |-> 0, skipped |-> 0,
                expected |-> {}, err |-> "nil", writes |-> 0, removes |-> 0]
        st1 == splitShardedTableWithCache(st0, ord.chunk, fault, t)
        st2 == splitShardedTableWithCache(st1, ord.mapchunk, fault, t)
        st3 == splitShardedTableWithCache(st2, ord.mapregion, fault, t)
        st4 == splitFlatTableWithCache(st3, "gamedata", ord.gamedata, fault, t)
        st5 == splitFlatTableWithCache(st4, "playerdata", ord.playerdata, fault, t)
        st6 == cleanupStaleFiles([st5 EXCEPT !.err = "nil"], fault)
    IN  IF st5.err # "nil"
          THEN [fs |-> st6.fs, written |-> 0, skipped |-> 0, err |-> st5.err]
          ELSE [fs |-> st6.fs, written |-> st6.written, skipped |-> st6.skipped,
                err |-> st6.err]
SplitWithCacheRun(fs, ord, fault, t) ==
    LET st0 == [fs |-> MkdirAll(fs, << >>), written |-> 0, skipped |-> 0,
                expected |-> {}, err |-> "nil", writes |-> 0, removes |-> 0]
        st1 == splitShardedTableWithCache(st0, ord.chunk, fault, t)
        st2 == splitShardedTableWithCache(st1, ord.mapchunk, fault, t)
        st3 == splitShardedTableWithCache(st2, ord.mapregion, fault, t)
        st4 == splitFlatTableWithCache(st3, "gamedata", ord.gamedata, fault, t)
        st5 == splitFlatTableWithCache(st4, "playerdata", ord.playerdata, fault, t)
        st6 == cleanupStaleFiles(st5, fault)
    IN  IF st5.err # "nil"
          THEN [fs |-> st5.fs, written |-> 0, skipped |-> 0, err |-> st5.err]
          ELSE [fs |-> st6.fs, written |-> st6.written, skipped |-> st6.skipped,
                err |-> st6.err]

RowOrders(src) ==
    [chunk : Orders(ShardedRows(src.chunk, "chunks")),
     mapchunk : Orders(ShardedRows(src.mapchunk, "mapchunks")),
     mapregion : Orders(ShardedRows(src.mapregion, "mapregions")),
     gamedata : Orders(GamedataRows(src.gamedata)),
     playerdata : Orders(PlayerdataRows(src.playerdata))]

----------------------------------------------------------------------------
(* Split and Combine: part_005 lines 66-454 *)

\* one iteration of a Split loop: (create the directory and) write the blob
SplitRow(st, row, mkdir) ==
    LET fs1 == IF mkdir THEN MkdirAll(st.fs, Dir(row.path)) ELSE st.fs
    IN  IF mkdir /\ ~MkdirAllOk(st.fs, Dir(row.path))
          THEN [st EXCEPT !.err = "mkdir"]
        ELSE IF ~WriteFileOk(fs1, row.path)
          THEN [st EXCEPT !.fs = fs1, !.err = "write"]
        ELSE [st EXCEPT !.fs = WriteFile(fs1, row.path, row.data, 0)]

RECURSIVE SplitRows(_, _, _)
SplitRows(st, rows, mkdir) ==
    IF rows = << >> \/ st.err # "nil" THEN st
    ELSE SplitRows(SplitRow(st, Head(rows), mkdir), Tail(rows), mkdir)

splitShardedTable(st, rows) ==
    IF st.err # "nil" THEN st ELSE SplitRows(st, rows, TRUE)

\* splitGamedata and splitPlayerdata: the flat directory is created first
splitFlatTable(st, subdir, rows) ==
    IF st.err # "nil" THEN st
    ELSE IF ~MkdirAllOk(st.fs, <<subdir>>) THEN [st EXCEPT !.err = "mkdir"]
    ELSE SplitRows([st EXCEPT !.fs = MkdirAll(@, <<subdir>>)], rows, FALSE)

\* the whole call on output directory fs
SplitRun(fs, ord) ==
    LET st0 == [fs |-> MkdirAll(fs, << >>), err |-> "nil"]
        st1 == splitShardedTable(st0, ord.chunk)
        st2 == splitShardedTable(st1, ord.mapchunk)
        st3 == splitShardedTable(st2, ord.mapregion)
        st4 == splitFlatTable(st3, "gamedata", ord.gamedata)
    IN  splitFlatTable(st4, "playerdata", ord.playerdata)

\* strings.TrimSuffix
TrimSuffix(name, suffix) ==
    IF HasSuffix(name, suffix) THEN SubSeq(name, 1, Len(name) - Len(suffix))
    ELSE name

\* value of one hexadecimal digit, -1 for any other character
HexValue(c) ==
    IF \E i \in 1 .. 16 : HexDigits[i] = c
      THEN (CHOOSE i \in 1 .. 16 : HexDigits[i] = c) - 1
    ELSE CASE c = "A" -> 10 [] c = "B" -> 11 [] c = "C" -> 12
           [] c = "D" -> 13 [] c = "E" -> 14 [] c = "F" -> 15
           [] OTHER -> -1

AnyStringIsHex(str) == TRUE
IsHex(str) == \A i \in 1 .. Len(str) : HexValue(Char(str, i)) >= 0

ParseHexWord(str) ==
    HexValue(Char(str, 1)) * 4096 + HexValue(Char(str, 2)) * 256
        + HexValue(Char(str, 3)) * 16 + HexValue(Char(str, 4))

NoPosition == <<0, 0, 0, 0>>

\* the position is the 16 hex digits of the file name
reconstructPositionFromPath(path) ==
    LET filename == Base(path)
        hexStr == TrimSuffix(filename, BinExt)
    IN  IF ~HasSuffix(filename, BinExt)
          THEN [position |-> NoPosition, err |-> "invalid filename"]
        ELSE IF Len(hexStr) # 16
          THEN [position |-> NoPosition, err |-> "invalid hex length"]
        ELSE IF ~IsHex(hexStr)
          THEN [position |-> NoPosition, err |-> "failed to parse hex"]
        ELSE [position |-> << ParseHexWord(SubSeq(hexStr, 1, 4)),
                               ParseHexWord(SubSeq(hexStr, 5, 8)),
                               ParseHexWord(SubSeq(hexStr, 9, 12)),
                               ParseHexWord(SubSeq(hexStr, 13, 16)) >>,
              err |-> "nil"]

\* INSERT OR REPLACE INTO a table with a primary key
InsertOrReplace(tbl, k, data) ==
    [q \in DOMAIN tbl \cup {k} |-> IF q = k THEN data ELSE tbl[q]]

\* the walk callback over the regular files of a sharded root, in walk order;
\* the first error ends the walk
RECURSIVE WalkSharded(_, _, _)
WalkSharded(fs, acc, paths) ==
    IF paths = << >> \/ acc.err # "nil" THEN acc
    ELSE LET path == Head(paths)
             pos == reconstructPositionFromPath(path)
         IN  IF ~HasSuffix(Base(path), BinExt)
               THEN WalkSharded(fs, acc, Tail(paths))
             ELSE IF pos.err # "nil"
               THEN [acc EXCEPT !.err = pos.err]
             ELSE WalkSharded(fs,
                      [acc EXCEPT !.tbl = InsertOrReplace(@, pos.position,
                                                          fs.files[path].data)],
                      Tail(paths))

\* a missing root is skipped; the table is committed only if the walk
\* returned no error
combineShardedTable(st, tableName, subdir) ==
    IF st.err # "nil" THEN st
    ELSE IF <<subdir>> \notin st.fs.dirs /\ <<subdir>> \notin DOMAIN st.fs.files
      THEN st
    ELSE LET found == {p \in DOMAIN st.fs.files :
                          p = <<subdir>> \/ IsUnder(<<subdir>>, p)}
             walk == WalkSharded(st.fs, [tbl |-> st.db[tableName], err |-> "nil"],
                                 WalkOrder(found))
         IN  IF walk.err # "nil" THEN [st EXCEPT !.err = walk.err]
             ELSE [st EXCEPT !.db[tableName] = walk.tbl]

\* strconv.ParseInt(s, 10, 64) of the short names of the model: an optional
\* sign and at least one decimal digit
IsDecimal(str) ==
    /\ Len(str) > 0
    /\ \A i \in 1 .. Len(str) : \E d \in 1 .. 10 : Digits[d] = Char(str, i)

RECURSIVE ParseNat(_)
ParseNat(str) ==
    IF Len(str) = 0 THEN 0
    ELSE ParseNat(SubSeq(str, 1, Len(str) - 1)) * 10
             + HexValue(Char(str, Len(str)))

ParseIntOk(str) ==
    IF Len(str) > 0 /\ Char(str, 1) \in {"+", "-"} THEN IsDecimal(Rest(str))
    ELSE IsDecimal(str)

ParseInt(str) ==
    IF Char(str, 1) = "-" THEN -ParseNat(Rest(str))
    ELSE IF Char(str, 1) = "+" THEN ParseNat(Rest(str))
    ELSE ParseNat(str)

\* the loop of combineGamedata over the entries in name order
RECURSIVE GamedataEntries(_, _, _)
GamedataEntries(fs, tbl, paths) ==
    IF paths = << >> THEN tbl
    ELSE LET name == Base(Head(paths))
             idStr == TrimSuffix(name, BinExt)
         IN  IF ~HasSuffix(name, BinExt) \/ ~ParseIntOk(idStr)
               THEN GamedataEntries(fs, tbl, Tail(paths))
             ELSE GamedataEntries(fs,
                      InsertOrReplace(tbl, ParseInt(idStr),
                                      fs.files[Head(paths)].data),
                      Tail(paths))

combineGamedata(st) ==
    IF st.err # "nil" THEN st
    ELSE IF <<"gamedata">> \in DOMAIN st.fs.files
      THEN [st EXCEPT !.err = "failed to read gamedata directory"]
    ELSE IF <<"gamedata">> \notin st.fs.dirs THEN st
    ELSE [st EXCEPT !.db.gamedata =
             GamedataEntries(st.fs, @, WalkOrder(ChildFiles(st.fs, <<"gamedata">>)))]

\* the loop of combinePlayerdata: one INSERT per *.bin entry, in name order
RECURSIVE PlayerdataEntries(_, _, _)
PlayerdataEntries(fs, tbl, paths) ==
    IF paths = << >> THEN tbl
    ELSE LET name == Base(Head(paths))
         IN  IF ~HasSuffix(name, BinExt)
               THEN PlayerdataEntries(fs, tbl, Tail(paths))
             ELSE PlayerdataEntries(fs,
                      Append(tbl, [key |-> unsanitizePlayerUID(TrimSuffix(name, BinExt)),
                                   data |-> fs.files[Head(paths)].data]),
                      Tail(paths))

combinePlayerdata(st) ==
    IF st.err # "nil" THEN st
    ELSE IF <<"playerdata">> \in DOMAIN st.fs.files
      THEN [st EXCEPT !.err = "failed to read playerdata directory"]
    ELSE IF <<"playerdata">> \notin st.fs.dirs THEN st
    ELSE [st EXCEPT !.db.playerdata =
             PlayerdataEntries(st.fs, @,
                               WalkOrder(ChildFiles(st.fs, <<"playerdata">>)))]

\* the store Combine creates: the playerdata table has no unique key and is
\* kept as its rows in the order of their autoincrement ids
NewStore ==
    [chunk |-> NoRows, mapchunk |-> NoRows, mapregion |-> NoRows,
     gamedata |-> NoRows, playerdata |-> << >>]

\* the whole call on input directory fs
CombineRun(fs) ==
    LET st0 == [fs |-> fs, db |-> NewStore, err |-> "nil"]
        st1 == combineShardedTable(st0, "chunk", "chunks")
        st2 == combineShardedTable(st1, "mapchunk", "mapchunks")
        st3 == combineShardedTable(st2, "mapregion", "mapregions")
        st4 == combineGamedata(st3)
        st5 == combinePlayerdata(st4)
    IN  [db |-> st5.db, err |-> st5.err]

\* the row orders of a store that Combine created
StoreOrders(store) ==
    [chunk : Orders(ShardedRows(store.chunk, "chunks")),
     mapchunk : Orders(ShardedRows(store.mapchunk, "mapchunks")),
     mapregion : Orders(ShardedRows(store.mapregion, "mapregions")),
     gamedata : Orders(GamedataRows(store.gamedata)),
     playerdata : Orders(PlayerdataRowsOf(
                            {store.playerdata[i] : i \in DOMAIN store.playerdata}))]

----------------------------------------------------------------------------
(* The cache across backup cycles: the server rewrites the source between  *)
(* calls of SplitWithCache on one cache directory.                         *)

\* 0x00000012abff341c (chunkZ 597, chunkX -52196), a neighbour in the same
\* chunkZ directory, and position 42
PosA == <<0, 18, 44031, 13340>>
PosB == Pack(22136, 597, 0, 0)
PosC == <<0, 0, 0, 42>>


\* keys of the rows a source may hold; the player UIDs are a padded base64
\* string and the empty string
KeysOf ==
    [chunk |-> {PosA, PosB}, mapchunk |-> {PosA}, mapregion |-> {PosC},
     gamedata |-> {1},
     playerdata |-> {"A+/=", ""}]

Blobs == {<<1>>, <<2>>}
Values == Blobs \cup {Null}

RowCount(d) ==
    Cardinality(DOMAIN d.chunk) + Cardinality(DOMAIN d.mapchunk)
        + Cardinality(DOMAIN d.mapregion) + Cardinality(DOMAIN d.gamedata)
        + Cardinality(DOMAIN d.playerdata)

TablesOver(K) == UNION {[S -> Values] : S \in SUBSET K}

\* the stores of at most MaxRows rows over the keys
SourcesOver(keys) ==
    {d \in [chunk : TablesOver(keys.chunk), mapchunk : TablesOver(keys.mapchunk),
            mapregion : TablesOver(keys.mapregion),
            gamedata : TablesOver(keys.gamedata),
            playerdata : TablesOver(keys.playerdata)] : RowCount(d) <= MaxRows}

Sources == SourcesOver(KeysOf)

\* what the cache directory may hold before the first call
OrphanBin == <<"gamedata", "zz.bin">>
ForeignFile == <<"chunks", "597", "note">>
EmptyShard == <<"mapchunks", "7", "8">>
Strays == {OrphanBin, ForeignFile, EmptyShard}

StrayCache(S) ==
    [files |-> [q \in S \cap {OrphanBin, ForeignFile} |->
                   [data |-> <<1>>, mtime |-> 0]],
     dirs |-> UNION {Prefixes(Dir(q)) : q \in S \cap {OrphanBin, ForeignFile}}
                \cup UNION {Prefixes(q) : q \in S \cap {EmptyShard}}]

CacheIdle ==
    /\ db = EmptyDb
    /\ cache = StrayCache({})
    /\ runs = 0
    /\ written = 0
    /\ skipped = 0
    /\ err = "nil"
    /\ lastDb = EmptyDb
    /\ prevDb = EmptyDb
    /\ edits = 0
    /\ faults = 0

\* any source, and a cache directory that is missing or holds foreign entries
CacheInit ==
    /\ db \in Sources
    /\ \E S \in {{}, Strays} : cache = StrayCache(S)
    /\ runs = 0
    /\ written = 0
    /\ skipped = 0
    /\ err = "nil"
    /\ lastDb = EmptyDb
    /\ prevDb = EmptyDb
    /\ edits = 0
    /\ faults = 0

\* the server rewrites the source between two calls
CanEdit == runs >= 1 /\ runs < MaxRuns /\ edits < MaxEdits

InsertRow ==
    /\ CanEdit
    /\ RowCount(db) < MaxRows
    /\ \E t \in Tables :
         \E k \in KeysOf[t] \ DOMAIN db[t], v \in Values :
            db' = [db EXCEPT ![t] =
                      [q \in DOMAIN db[t] \cup {k} |->
                          IF q = k THEN v ELSE db[t][q]]]
    /\ edits' = edits + 1
    /\ UNCHANGED <<cache, runs, written, skipped, err, lastDb, prevDb, faults>>

UpdateRow ==
    /\ CanEdit
    /\ \E t \in Tables :
         \E k \in DOMAIN db[t], v \in Values :
            /\ v # db[t][k]
            /\ db' = [db EXCEPT ![t][k] = v]
    /\ edits' = edits + 1
    /\ UNCHANGED <<cache, runs, written, skipped, err, lastDb, prevDb, faults>>

DeleteRow ==
    /\ CanEdit
    /\ \E t \in Tables :
         \E k \in DOMAIN db[t] :
            db' = [db EXCEPT ![t] = Restrict(@, DOMAIN @ \ {k})]
    /\ edits' = edits + 1
    /\ UNCHANGED <<cache, runs, written, skipped, err, lastDb, prevDb, faults>>

\* an I/O failure of one os.WriteFile or one os.Remove call
Faults ==
    {NoFault}
        \cup {[write |-> k, remove |-> 0, tear |-> b] :
                 k \in 1 .. MaxRows, b \in BOOLEAN}
        \cup {[write |-> 0, remove |-> k, tear |-> FALSE] : k \in 1 .. MaxRows}

\* every file is now older than the call that begins
Age(fs) ==
    [fs EXCEPT !.files = [q \in DOMAIN @ |-> [@[q] EXCEPT !.mtime = 0]]]

SplitWithCache ==
    /\ runs < MaxRuns
    /\ \E ord \in RowOrders(db), fault \in Faults :
        LET r == SplitWithCacheRun(Age(cache), ord, fault, 1)
        IN  /\ fault = NoFault \/ faults < MaxFaults
            /\ fault # NoFault => r.err \in {"write", "remove"}
            /\ cache' = r.fs
            /\ written' = r.written
            /\ skipped' = r.skipped
            /\ err' = r.err
            /\ faults' = IF fault = NoFault THEN faults ELSE faults + 1
            /\ runs' = runs + 1
            /\ lastDb' = db
            /\ prevDb' = lastDb
            /\ edits' = 0
            /\ UNCHANGED db

----------------------------------------------------------------------------
(* The round trip: a store is split, the tree combined into a new store,   *)
(* and that store split again.                                             *)

\* as KeysOf, with a player UID that differs from another by its padding
TreeKeysOf == [KeysOf EXCEPT !.playerdata = {"A+/=", "A+/", ""}]

EmptyDir == StrayCache({})

TreeIdle ==
    /\ source = EmptyDb
    /\ tree = EmptyDir
    /\ restored = NewStore
    /\ tree2 = EmptyDir
    /\ treeErr = "nil"
    /\ planted = {}
    /\ dropped = {}
    /\ treePc = "off"

TreeInit ==
    /\ source \in SourcesOver(TreeKeysOf)
    /\ tree = EmptyDir
    /\ restored = NewStore
    /\ tree2 = EmptyDir
    /\ treeErr = "nil"
    /\ planted = {}
    /\ dropped = {}
    /\ treePc = "source"

Split ==
    \/ /\ treePc = "source"
       /\ \E ord \in RowOrders(source) :
            LET r == SplitRun(tree, ord)
            IN  tree' = r.fs /\ treeErr' = r.err
       /\ treePc' = "split"
       /\ UNCHANGED <<source, restored, tree2, planted, dropped>>
    \/ /\ treePc = "combined"
       /\ treeErr = "nil"
       /\ \E ord \in StoreOrders(restored) :
            LET r == SplitRun(tree2, ord)
            IN  tree2' = r.fs /\ treeErr' = r.err
       /\ treePc' = "resplit"
       /\ UNCHANGED <<source, tree, restored, planted, dropped>>

Combine ==
    /\ treePc = "split"
    /\ treeErr = "nil"
    /\ LET r == CombineRun(tree)
       IN  restored' = r.db /\ treeErr' = r.err
    /\ treePc' = "combined"
    /\ UNCHANGED <<source, tree, tree2, planted, dropped>>

\* a tree that did not come from Split alone: file names that Split never
\* produces, as the cases of TestReconstructPositionFromPath_InvalidPaths
ShortHexBin == <<"chunks", "0", "0", "000000000000.bin">>
NonHexBin == <<"mapchunks", "0", "0", "zzzzzzzzzzzzzzzz.bin">>
WrongExtension == <<"chunks", "0", "0", "0000000000000000.txt">>
NonIntegerBin == <<"gamedata", "abc.bin">>
Malformed == {ShortHexBin, NonHexBin, WrongExtension, NonIntegerBin}

\* the roots a restore may leave out
Droppable == {"mapchunks", "gamedata"}

\* keys of the stores whose trees are tampered with
CombineKeysOf ==
    [chunk |-> {PosA}, mapchunk |-> {PosC}, mapregion |-> {},
     gamedata |-> {1}, playerdata |-> {"A+/"}]

CombineInit ==
    /\ source \in SourcesOver(CombineKeysOf)
    /\ tree = EmptyDir
    /\ restored = NewStore
    /\ tree2 = EmptyDir
    /\ treeErr = "nil"
    /\ planted = {}
    /\ dropped = {}
    /\ treePc = "source"

\* a file of a malformed name appears in the tree before Combine reads it
PlantFile ==
    /\ treePc = "split"
    /\ treeErr = "nil"
    /\ \E p \in Malformed \ planted :
          /\ MkdirAllOk(tree, Dir(p))
          /\ WriteFileOk(MkdirAll(tree, Dir(p)), p)
          /\ tree' = WriteFile(MkdirAll(tree, Dir(p)), p, <<9>>, 0)
          /\ planted' = planted \cup {p}
    /\ UNCHANGED <<source, restored, tree2, treeErr, dropped, treePc>>

\* a root directory and everything below it disappears before Combine
RemoveSubdir ==
    /\ treePc = "split"
    /\ treeErr = "nil"
    /\ \E root \in Droppable \ dropped :
          /\ <<root>> \in tree.dirs
          /\ tree' = [dirs |-> {d \in tree.dirs :
                                  d # <<root>> /\ ~IsUnder(<<root>>, d)},
                      files |-> Restrict(tree.files,
                                         {q \in DOMAIN tree.files :
                                             ~IsUnder(<<root>>, q)})]
          /\ dropped' = dropped \cup {root}
    /\ UNCHANGED <<source, restored, tree2, treeErr, planted, treePc>>

----------------------------------------------------------------------------
(* One backup cycle: Manager.performBackup, manager.go lines 258-557 *)

dirsToSync == <<"Logs", "Playerdata", "Mods">>
configFiles == <<"serverconfig.json", "servermagicnumbers.json">>
SyncItems == dirsToSync \o configFiles

ErrServerNotBooted == "server has not fully booted yet"
ErrNoPlayersOnline == "no players online, backup skipped"

\* the Manager's collaborators and options, and the skipPlayerCheck argument;
\* a checker is "nil" or named by what its method returns. The gates are
\* taken in every combination with the later steps fully configured, and the
\* later steps in every combination behind gates that let the cycle pass.
Policy == <<"--keep-daily", " ", "7">>
Configs ==
    [BootChecker : {"nil", "true", "false"},
     skipPlayerCheck : BOOLEAN,
     PauseWhenNoPlayers : BOOLEAN,
     PlayerChecker : {"nil", "true", "false"},
     BackupCompletionWaiter : {TRUE},
     PruneRetention : {Policy},
     ResticRunner : {FALSE},
     PruneRunner : {FALSE}]
    \cup
    [BootChecker : {"true"},
     skipPlayerCheck : {FALSE},
     PauseWhenNoPlayers : {TRUE},
     PlayerChecker : {"true"},
     BackupCompletionWaiter : BOOLEAN,
     PruneRetention : {<< >>, Policy},
     ResticRunner : BOOLEAN,
     PruneRunner : BOOLEAN]

\* serverconfig.json: missing, not JSON, without or with SaveFileLocation
ConfigDocs == {"missing", "invalid", "{}", "/gamedata/Saves/world.vcdbs"}
AuxItems == {"Logs", "Playerdata", "Mods", "servermagicnumbers.json"}
GameDataDirs ==
    [aux : {AuxItems}, serverconfig : ConfigDocs]
        \cup [aux : {{}} \cup {AuxItems \ {i} : i \in AuxItems},
              serverconfig : {"{}"}]

Present(gd, item) ==
    IF item = "serverconfig.json" THEN gd.serverconfig # "missing"
    ELSE item \in gd.aux

\* the Backups directory before the cycle: empty, or holding an older backup
\* and entries that must not be taken for the new one
Later == MaxTime + 1
NoEntries == [n \in {} |-> [kind |-> "file", mtime |-> 0, lock |-> "none"]]
Clutter ==
    [n \in {"a-old.vcdbs", "b-dir.vcdbs", "c-held.vcdbs", "notes.txt"} |->
        CASE n = "a-old.vcdbs" -> [kind |-> "file", mtime |-> 0, lock |-> "none"]
          [] n = "b-dir.vcdbs" -> [kind |-> "dir", mtime |-> Later, lock |-> "none"]
          [] n = "c-held.vcdbs" -> [kind |-> "file", mtime |-> Later, lock |-> "other"]
          [] n = "notes.txt" -> [kind |-> "file", mtime |-> Later, lock |-> "none"]]
NewBackup == "world.vcdbs"

StagingKeys == {"Logs", "Playerdata", "Mods", "serverconfig.json",
                "servermagicnumbers.json", "Saves"}

\* the first cycle on empty directories, or a later one
Surroundings ==
    {[backups |-> NoEntries, staging |-> [k \in StagingKeys |-> "absent"]],
     [backups |-> Clutter, staging |-> [k \in StagingKeys |-> "old"]]}

CycleIdle ==
    /\ config = [BootChecker |-> "nil", skipPlayerCheck |-> FALSE,
                 PauseWhenNoPlayers |-> FALSE, PlayerChecker |-> "nil",
                 BackupCompletionWaiter |-> FALSE, PruneRetention |-> << >>,
                 ResticRunner |-> FALSE, PruneRunner |-> FALSE]
    /\ gameData = [aux |-> {}, serverconfig |-> "missing"]
    /\ backups = NoEntries
    /\ staging = [k \in StagingKeys |-> "absent"]
    /\ cyclePc = "off"
    /\ cycleErr = "pending"
    /\ log = << >>
    /\ saveFileName = ""
    /\ beforeGenbackup = 0
    /\ now = 0
    /\ ctxDone = FALSE
    /\ tickReady = FALSE
    /\ polls = 0
    /\ backupFile = ""
    /\ commands = << >>

CycleInit ==
    /\ config \in Configs
    /\ gameData \in GameDataDirs
    /\ \E sur \in Surroundings :
          backups = sur.backups /\ staging = sur.staging
    /\ cyclePc = "BootGate"
    /\ cycleErr = "pending"
    /\ log = << >>
    /\ saveFileName = ""
    /\ beforeGenbackup = 0
    /\ now = 1
    /\ ctxDone = FALSE
    /\ tickReady = FALSE
    /\ polls = 0
    /\ backupFile = ""
    /\ commands = << >>

\* the statements of performBackup and updateStagingDirectory in the order
\* of the source text
Statements ==
    <<"BootGate", "PlayerGate", "getSaveFileName", "Trigger", "AwaitFile",
      "Poll", "Stage", "Convert", "Snapshot", "Prune", "done">>

IndexIn(seq, x) == CHOOSE i \in 1 .. Len(seq) : seq[i] = x

\* the statement reached when statement pc completes without an error
ConvertBeforeStage(pc) ==
    CASE pc = "Poll" -> "Convert"
      [] pc = "Convert" -> "Stage"
      [] pc = "Stage" -> "Snapshot"
      [] OTHER -> Statements[IndexIn(Statements, pc) + 1]
Proceed(pc) == Statements[IndexIn(Statements, pc) + 1]

\* performBackup returns e
GoesOnAfterError(e) == cyclePc' = Proceed(cyclePc) /\ cycleErr' = e
Return(e) == cyclePc' = "done" /\ cycleErr' = e

\* Step 0a, lines 260-262
BootGateIgnoresChecker ==
    /\ cyclePc = "BootGate"
    /\ cyclePc' = Proceed(cyclePc)
    /\ UNCHANGED <<config, gameData, backups, staging, cycleErr, log,
                   saveFileName, beforeGenbackup, now, ctxDone, tickReady,
                   polls, backupFile,
                   commands>>
BootGate ==
    /\ cyclePc = "BootGate"
    /\ IF config.BootChecker = "nil"
         THEN cyclePc' = Proceed(cyclePc) /\ UNCHANGED <<cycleErr, log>>
       ELSE /\ log' = Append(log, "HasBooted")
            /\ IF config.BootChecker = "false" THEN Return(ErrServerNotBooted)
               ELSE cyclePc' = Proceed(cyclePc) /\ UNCHANGED cycleErr
    /\ UNCHANGED <<config, gameData, backups, staging, saveFileName,
                   beforeGenbackup, now, ctxDone, tickReady, polls, backupFile,
                   commands>>

\* Step 0b, lines 268-272
PlayerGateIgnoresSkip ==
    /\ cyclePc = "PlayerGate"
    /\ IF config.PauseWhenNoPlayers /\ config.PlayerChecker # "nil"
         THEN /\ log' = Append(log, "ShouldBackup")
              /\ IF config.PlayerChecker = "false" THEN Return(ErrNoPlayersOnline)
                 ELSE cyclePc' = Proceed(cyclePc) /\ UNCHANGED cycleErr
       ELSE cyclePc' = Proceed(cyclePc) /\ UNCHANGED <<cycleErr, log>>
    /\ UNCHANGED <<config, gameData, backups, staging, saveFileName,
                   beforeGenbackup, now, ctxDone, tickReady, polls, backupFile,
                   commands>>
PlayerGate ==
    /\ cyclePc = "PlayerGate"
    /\ IF ~config.skipPlayerCheck /\ config.PauseWhenNoPlayers
            /\ config.PlayerChecker # "nil"
         THEN /\ log' = Append(log, "ShouldBackup")
              /\ IF config.PlayerChecker = "false" THEN Return(ErrNoPlayersOnline)
                 ELSE cyclePc' = Proceed(cyclePc) /\ UNCHANGED cycleErr
       ELSE cyclePc' = Proceed(cyclePc) /\ UNCHANGED <<cycleErr, log>>
    /\ UNCHANGED <<config, gameData, backups, staging, saveFileName,
                   beforeGenbackup, now, ctxDone, tickReady, polls, backupFile,
                   commands>>

\* Step 1, lines 275-278 and 319-338
getSaveFileName ==
    /\ cyclePc = "getSaveFileName"
    /\ log' = Append(log, "ReadFile")
    /\ CASE gameData.serverconfig = "missing" ->
              Return("failed to get save file name") /\ UNCHANGED saveFileName
         [] gameData.serverconfig = "invalid" ->
              Return("failed to get save file name") /\ UNCHANGED saveFileName
         [] gameData.serverconfig = "{}" ->
              /\ saveFileName' = "default.vcdbs"
              /\ cyclePc' = Proceed(cyclePc) /\ UNCHANGED cycleErr
         [] OTHER ->
              /\ saveFileName' = "world.vcdbs"
              /\ cyclePc' = Proceed(cyclePc) /\ UNCHANGED cycleErr
    /\ UNCHANGED <<config, gameData, backups, staging,
                   beforeGenbackup, now, ctxDone, tickReady, polls, backupFile,
                   commands>>

\* Steps 2 and 3, lines 281-286: the time is recorded, the command sent
Trigger ==
    /\ cyclePc = "Trigger"
    /\ beforeGenbackup' = now
    /\ log' = Append(log, "SendCommand")
    /\ \E sent \in BOOLEAN :
          IF sent THEN cyclePc' = Proceed(cyclePc) /\ UNCHANGED cycleErr
          ELSE Return("failed to send genbackup command")
    /\ UNCHANGED <<config, gameData, backups, staging, saveFileName,
                   now, ctxDone, tickReady, polls, backupFile,
                   commands>>

\* lines 346-360: the completion wait, then the ticker is created
SkipsCompletionWait ==
    /\ cyclePc = "AwaitFile"
    /\ cyclePc' = Proceed(cyclePc)
    /\ UNCHANGED <<config, gameData, backups, staging, cycleErr, log,
                   saveFileName, beforeGenbackup, now, ctxDone, tickReady,
                   polls, backupFile,
                   commands>>
WaitForBackupComplete ==
    /\ cyclePc = "AwaitFile"
    /\ IF config.BackupCompletionWaiter
         THEN /\ log' = Append(log, "WaitForBackupComplete")
              /\ \E signalled \in BOOLEAN :
                    IF signalled THEN cyclePc' = Proceed(cyclePc) /\ UNCHANGED cycleErr
                    ELSE Return("failed to wait for backup file")
       ELSE cyclePc' = Proceed(cyclePc) /\ UNCHANGED <<cycleErr, log>>
    /\ UNCHANGED <<config, gameData, backups, staging, saveFileName,
                   beforeGenbackup, now, ctxDone, tickReady, polls, backupFile,
                   commands>>

\* lines 403-420: the probe succeeds when nobody holds a lock, and gives its
\* own lock back at once
isFileUnlocked(entry) ==
    IF entry.lock = "none" THEN [ok |-> TRUE, lock |-> "none"]
    ELSE [ok |-> FALSE, lock |-> entry.lock]

\* info.ModTime().After(afterTime)
AnyModTime(mtime, afterTime) == TRUE
After(mtime, afterTime) == mtime > afterTime

\* lines 372-396: the entries that pass every test of the loop body
Candidates(entries, afterTime) ==
    {n \in DOMAIN entries :
        /\ entries[n].kind # "dir"
        /\ HasSuffix(n, ".vcdbs")
        /\ After(entries[n].mtime, afterTime)
        /\ isFileUnlocked(entries[n]).ok}

\* lines 362-398, case <-ticker.C: one iteration; os.ReadDir returns the
\* entries sorted by name and the first candidate is returned
Poll ==
    /\ cyclePc = "Poll"
    /\ tickReady
    /\ tickReady' = FALSE
    /\ polls' = polls + 1
    /\ log' = Append(log, "ReadDir")
    /\ LET found == Candidates(backups, beforeGenbackup)
       IN  IF found = {}
             THEN UNCHANGED <<cyclePc, backupFile, backups>>
           ELSE LET first == CHOOSE n \in found :
                                \A o \in found \ {n} : LessName(n, o)
                IN  /\ backupFile' = first
                    /\ backups' = [backups EXCEPT ![first].lock =
                                      isFileUnlocked(backups[first]).lock]
                    /\ cyclePc' = Proceed(cyclePc)
    /\ UNCHANGED <<config, gameData, staging, cycleErr, saveFileName,
                   beforeGenbackup, now, ctxDone, commands>>

\* lines 364-365, case <-ctx.Done()
CtxDone ==
    /\ cyclePc = "Poll"
    /\ ctxDone
    /\ Return("failed to wait for backup file")
    /\ UNCHANGED <<config, gameData, backups, staging, log, saveFileName,
                   beforeGenbackup, now, ctxDone, tickReady, polls, backupFile,
                   commands>>

\* lines 433-456: the item is mirrored; a missing directory is left alone, a
\* missing file is removed from the staging root
SyncItem(gd, st, item) ==
    IF Present(gd, item) THEN [st EXCEPT ![item] = "current"]
    ELSE IF \E i \in 1 .. Len(configFiles) : configFiles[i] = item
      THEN [st EXCEPT ![item] = "absent"]
    ELSE st

RECURSIVE SyncFirst(_, _, _)
SyncFirst(gd, st, n) ==
    IF n = 0 THEN st ELSE SyncItem(gd, SyncFirst(gd, st, n - 1), SyncItems[n])

\* updateStagingDirectory, lines 427-456: the items are mirrored in order
\* until the copy of one fails
Stage ==
    /\ cyclePc = "Stage"
    /\ \E done \in 0 .. Len(SyncItems) :
          /\ done < Len(SyncItems) => Present(gameData, SyncItems[done + 1])
          /\ staging' = SyncFirst(gameData, staging, done)
          /\ IF done = Len(SyncItems)
               THEN /\ log' = log \o [i \in 1 .. done |-> "Sync"]
                    /\ cyclePc' = Proceed(cyclePc) /\ UNCHANGED cycleErr
             ELSE /\ log' = log \o [i \in 1 .. done + 1 |-> "Sync"]
                  /\ Return("failed to update staging directory")
    /\ UNCHANGED <<config, gameData, backups, saveFileName,
                   beforeGenbackup, now, ctxDone, tickReady, polls, backupFile,
                   commands>>

\* os.Remove of the accepted file
KeepsBackupFile(entries, name) == entries
RemoveBackupFile(entries, name) ==
    [n \in DOMAIN entries \ {name} |-> entries[n]]

\* updateStagingDirectory, lines 460-480: the accepted file is split into
\* Saves/<name> and removed
Convert ==
    /\ cyclePc = "Convert"
    /\ \E split \in BOOLEAN, removed \in BOOLEAN :
          IF ~split
            THEN /\ log' = Append(log, "SplitWithCache")
                 /\ staging' = [staging EXCEPT !["Saves"] = "partial"]
                 /\ Return("failed to update staging directory")
                 /\ UNCHANGED backups
          ELSE IF ~removed
            THEN /\ log' = log \o <<"SplitWithCache", "Remove">>
                 /\ staging' = [staging EXCEPT !["Saves"] = "current"]
                 /\ Return("failed to update staging directory")
                 /\ UNCHANGED backups
          ELSE /\ log' = log \o <<"SplitWithCache", "Remove">>
               /\ staging' = [staging EXCEPT !["Saves"] = "current"]
               /\ backups' = RemoveBackupFile(backups, backupFile)
               /\ cyclePc' = Proceed(cyclePc) /\ UNCHANGED cycleErr
    /\ UNCHANGED <<config, gameData, saveFileName,
                   beforeGenbackup, now, ctxDone, tickReady, polls, backupFile,
                   commands>>

\* what a command ended with: exit code 0, the code restic gives for a
\* repository that does not exist, another failure, or -1 for a command
\* that could not be run; err is the error returned beside the exit code
ExitUninitialized == 10
ExitCodes == {0, ExitUninitialized, 1, -1}
CommandResults == [exitCode : ExitCodes, err : BOOLEAN]

\* cmd.Run() of lines 516-522 and 548-554: nil, or the error of a failed run
RunResults == {[exitCode |-> 0, err |-> FALSE], [exitCode |-> 1, err |-> TRUE]}

StagingDir == "/backupcache/staging"

Ran(argv, result) ==
    [argv |-> argv, exitCode |-> result.exitCode, err |-> result.err]

\* the entry of the log of calls for a command
CallOf(argv) ==
    CASE argv[2] = "cat" -> "restic cat config"
      [] argv[2] = "init" -> "restic init"
      [] argv[2] = "backup" -> "restic backup"
      [] argv[2] = "forget" -> "restic forget"

CallsOf(ran) == [i \in 1 .. Len(ran) |-> CallOf(ran[i].argv)]

\* lines 561-586: the commands ensureRepoInitialized runs and what it returns,
\* when "restic cat config" ends with probe and "restic init" would end with
\* init
InitOnAnyFailure(probe, init) ==
    IF probe.exitCode = 0
      THEN [ran |-> <<Ran(<<"restic", "cat", "config">>, probe)>>, err |-> "nil"]
    ELSE [ran |-> <<Ran(<<"restic", "cat", "config">>, probe),
                    Ran(<<"restic", "init">>, init)>>,
          err |-> IF init.err \/ init.exitCode # 0
                    THEN "restic init failed" ELSE "nil"]
ensureRepoInitialized(probe, init) ==
    IF probe.exitCode = 0
      THEN [ran |-> <<Ran(<<"restic", "cat", "config">>, probe)>>, err |-> "nil"]
    ELSE IF probe.exitCode = ExitUninitialized
      THEN [ran |-> <<Ran(<<"restic", "cat", "config">>, probe),
                      Ran(<<"restic", "init">>, init)>>,
            err |-> IF init.err THEN "restic init failed"
                    ELSE IF init.exitCode # 0
                      THEN "restic init failed with exit code"
                    ELSE "nil"]
    ELSE [ran |-> <<Ran(<<"restic", "cat", "config">>, probe)>>,
          err |-> "restic cat config failed"]

\* Step 6, lines 303-305 and 499-525: runRestic
Snapshot ==
    /\ cyclePc = "Snapshot"
    /\ IF config.ResticRunner
         THEN /\ log' = Append(log, "ResticRunner")
              /\ UNCHANGED commands
              /\ \E ok \in BOOLEAN :
                    IF ok THEN cyclePc' = Proceed(cyclePc) /\ UNCHANGED cycleErr
                    ELSE Return("failed to run restic backup")
       ELSE \E repository \in BOOLEAN :
              IF ~repository
                THEN /\ log' = Append(log, "Getenv")
                     /\ UNCHANGED commands
                     /\ Return("failed to run restic backup")
              ELSE \E probe \in CommandResults, init \in CommandResults,
                      backup \in RunResults :
                     LET ensured == ensureRepoInitialized(probe, init)
                         ran == IF ensured.err # "nil" THEN ensured.ran
                                ELSE Append(ensured.ran,
                                            Ran(<<"restic", "backup", StagingDir>>,
                                                backup))
                     IN  /\ commands' = commands \o ran
                         /\ log' = log \o <<"Getenv">> \o CallsOf(ran)
                         /\ IF ensured.err # "nil" \/ backup.err
                              THEN Return("failed to run restic backup")
                            ELSE cyclePc' = Proceed(cyclePc) /\ UNCHANGED cycleErr
    /\ UNCHANGED <<config, gameData, backups, staging, saveFileName,
                   beforeGenbackup, now, ctxDone, tickReady, polls, backupFile>>

\* strings.Fields on a string given as its words and the runs of white
\* space between them
Fields(str) == SelectSeq(str, LAMBDA w : w # " ")

\* Step 7, lines 308-315 and 529-557: runResticPrune
PrunesWithoutPolicy ==
    /\ cyclePc = "Prune"
    /\ \E forget \in RunResults :
          /\ commands' = Append(commands,
                Ran(<<"restic", "forget">> \o Fields(config.PruneRetention)
                        \o <<"--prune">>, forget))
          /\ log' = Append(log, "restic forget")
          /\ IF forget.err THEN Return("failed to run restic prune")
             ELSE Return("nil")
    /\ UNCHANGED <<config, gameData, backups, staging, saveFileName,
                   beforeGenbackup, now, ctxDone, tickReady, polls, backupFile>>
Prune ==
    /\ cyclePc = "Prune"
    /\ IF config.PruneRetention = << >>
         THEN Return("nil") /\ UNCHANGED <<log, commands>>
       ELSE IF config.PruneRunner
         THEN /\ log' = Append(log, "PruneRunner")
              /\ UNCHANGED commands
              /\ \E ok \in BOOLEAN :
                    IF ok THEN Return("nil")
                    ELSE Return("failed to run restic prune")
       ELSE \E forget \in RunResults :
              /\ commands' = Append(commands,
                    Ran(<<"restic", "forget">> \o Fields(config.PruneRetention)
                            \o <<"--prune">>, forget))
              /\ log' = Append(log, "restic forget")
              /\ IF forget.err THEN Return("failed to run restic prune")
                 ELSE Return("nil")
    /\ UNCHANGED <<config, gameData, backups, staging, saveFileName,
                   beforeGenbackup, now, ctxDone, tickReady, polls, backupFile>>

\* the world around the cycle: time passes, the ticker ticks, the context
\* ends, the server writes its backup file under a lock and lets it go
Advance ==
    /\ cyclePc \in {"AwaitFile", "Poll"}
    /\ now < MaxTime
    /\ now' = now + 1
    /\ UNCHANGED <<config, gameData, backups, staging, cyclePc, cycleErr, log,
                   saveFileName, beforeGenbackup, ctxDone, tickReady, polls,
                   backupFile,
                   commands>>

Tick ==
    /\ cyclePc = "Poll"
    /\ ~tickReady
    /\ polls < MaxPolls
    /\ tickReady' = TRUE
    /\ UNCHANGED <<config, gameData, backups, staging, cyclePc, cycleErr, log,
                   saveFileName, beforeGenbackup, now, ctxDone, polls,
                   backupFile,
                   commands>>

Expire ==
    /\ cyclePc \in {"AwaitFile", "Poll"}
    /\ ~ctxDone
    /\ ctxDone' = TRUE
    /\ UNCHANGED <<config, gameData, backups, staging, cyclePc, cycleErr, log,
                   saveFileName, beforeGenbackup, now, tickReady, polls,
                   backupFile,
                   commands>>

ServerWrites ==
    /\ cyclePc \in {"Trigger", "AwaitFile", "Poll"}
    /\ NewBackup \notin DOMAIN backups
    /\ backupFile = ""
    /\ backups' = [n \in DOMAIN backups \cup {NewBackup} |->
                      IF n = NewBackup
                        THEN [kind |-> "file", mtime |-> now, lock |-> "other"]
                      ELSE backups[n]]
    /\ UNCHANGED <<config, gameData, staging, cyclePc, cycleErr, log,
                   saveFileName, beforeGenbackup, now, ctxDone, tickReady,
                   polls, backupFile,
                   commands>>

ServerUnlocks ==
    /\ cyclePc \in {"Trigger", "AwaitFile", "Poll"}
    /\ NewBackup \in DOMAIN backups
    /\ backups[NewBackup].lock = "other"
    /\ backups' = [backups EXCEPT ![NewBackup] =
                      [kind |-> "file", mtime |-> now, lock |-> "none"]]
    /\ UNCHANGED <<config, gameData, staging, cyclePc, cycleErr, log,
                   saveFileName, beforeGenbackup, now, ctxDone, tickReady,
                   polls, backupFile,
                   commands>>

\* Cycle after cycle: the loop calls performBackup again at every tick,
\* lines 235-236, and the server names each backup file it generates anew

GeneratedNames == {NewBackup, "world-2.vcdbs"}

Generated(entries) == GeneratedNames \cap DOMAIN entries

\* the server answers a /genbackup with one file, written under a lock
ServerGenerates ==
    /\ cyclePc \in {"AwaitFile", "Poll"}
    /\ \A n \in Generated(backups) :
          backups[n].mtime = 0 /\ backups[n].lock = "none"
    /\ \E n \in GeneratedNames \ DOMAIN backups :
          backups' = [m \in DOMAIN backups \cup {n} |->
                        IF m = n
                          THEN [kind |-> "file", mtime |-> now, lock |-> "other"]
                        ELSE backups[m]]
    /\ UNCHANGED <<config, gameData, staging, cyclePc, cycleErr, log,
                   saveFileName, beforeGenbackup, now, ctxDone, tickReady,
                   polls, backupFile,
                   commands>>

\* the server closes the file, during the cycle or after it has ended
ServerFinishes ==
    /\ \E n \in Generated(backups) :
          /\ backups[n].lock = "other"
          /\ backups' = [backups EXCEPT ![n] =
                            [kind |-> "file", mtime |-> now, lock |-> "none"]]
    /\ UNCHANGED <<config, gameData, staging, cyclePc, cycleErr, log,
                   saveFileName, beforeGenbackup, now, ctxDone, tickReady,
                   polls, backupFile,
                   commands>>

\* times are counted from the start of the running cycle: a file closed
\* before the cycle began is older than every time of the cycle
Earlier(entries) ==
    [n \in DOMAIN entries |->
        IF entries[n].mtime <= MaxTime /\ entries[n].lock = "none"
          THEN [entries[n] EXCEPT !.mtime = 0]
        ELSE entries[n]]

\* lines 235-236 and 242-247: the next tick, performBackup is called anew
NextTick ==
    /\ cyclePc = "done"
    /\ cyclePc' = "BootGate"
    /\ cycleErr' = "pending"
    /\ log' = << >>
    /\ saveFileName' = ""
    /\ beforeGenbackup' = 0
    /\ now' = 1
    /\ ctxDone' = FALSE
    /\ tickReady' = FALSE
    /\ polls' = 0
    /\ backupFile' = ""
    /\ commands' = << >>
    /\ backups' = Earlier(backups)
    /\ UNCHANGED <<config, gameData, staging>>

-----------------------------------------------------------------------------
(* The scheduling loop: Manager.runLoop and runBackup, manager.go lines
   224-254, RunBackupNow, lines 610-615, and the boot-time backup the
   launcher starts from Server.OnBoot, main.go lines 141-155 *)

SchedIdle ==
    /\ loopPc = "off"
    /\ ticker = FALSE
    /\ cancelled = FALSE
    /\ hasBooted = FALSE
    /\ cycles = << >>
    /\ callbacks = << >>
    /\ stopPc = "idle"

\* after Manager.Start: the loop goroutine is at its select, the server has
\* not booted yet
SchedInit ==
    /\ loopPc = "select"
    /\ ticker = FALSE
    /\ cancelled = FALSE
    /\ hasBooted = FALSE
    /\ cycles = << >>
    /\ callbacks = << >>
    /\ stopPc = "idle"

LoopCycles == {i \in 1 .. Len(cycles) : cycles[i].by = "runLoop"}

\* the ticker fires; a tick that finds the channel full is dropped
LoopTick ==
    /\ loopPc \in {"select", "runBackup"}
    /\ ~ticker
    /\ ticker' = TRUE
    /\ UNCHANGED <<stopPc, loopPc, cancelled, hasBooted, cycles, callbacks>>

\* a new invocation performBackup(ctx, skipPlayerCheck)
Invocation(by, skipPlayerCheck) ==
    [by |-> by, skipPlayerCheck |-> skipPlayerCheck, pc |-> "gates",
     err |-> "pending"]

\* lines 235-236 and 242-249: case <-ticker.C, runBackup up to its call of
\* performBackup
StartsWithoutWaiting ==
    /\ loopPc = "select"
    /\ ticker
    /\ Cardinality(LoopCycles) < MaxCycles
    /\ ticker' = FALSE
    /\ callbacks' = Append(callbacks,
          [fn |-> "OnBackupStart", cycle |-> Len(cycles) + 1, err |-> "pending"])
    /\ cycles' = Append(cycles, Invocation("runLoop", FALSE))
    /\ UNCHANGED <<stopPc, loopPc, cancelled, hasBooted>>
runBackup ==
    /\ loopPc = "select"
    /\ ticker
    /\ Cardinality(LoopCycles) < MaxCycles
    /\ ticker' = FALSE
    /\ loopPc' = "runBackup"
    /\ callbacks' = Append(callbacks,
          [fn |-> "OnBackupStart", cycle |-> Len(cycles) + 1, err |-> "pending"])
    /\ cycles' = Append(cycles, Invocation("runLoop", FALSE))
    /\ UNCHANGED <<stopPc, cancelled, hasBooted>>

\* the steps of an invocation of performBackup, lines 258-315: the gates,
\* the command and the wait for the file, the staging directory, restic
Performed(i, e) == cycles' = [cycles EXCEPT ![i].pc = "performed", ![i].err = e]
Goes(i, pc) == cycles' = [cycles EXCEPT ![i].pc = pc]

performBackup(i) ==
    /\ CASE cycles[i].pc = "gates" ->
              IF ~hasBooted THEN Performed(i, ErrServerNotBooted)
              ELSE \E ShouldBackup \in BOOLEAN :
                     IF ~cycles[i].skipPlayerCheck /\ ~ShouldBackup
                       THEN Performed(i, ErrNoPlayersOnline)
                     ELSE Goes(i, "waitForBackupFile")
         [] cycles[i].pc = "waitForBackupFile" ->
              \/ Goes(i, "updateStagingDirectory")
              \/ Performed(i, "failed to wait for backup file")
         [] cycles[i].pc = "updateStagingDirectory" ->
              \/ Goes(i, "runRestic")
              \/ Performed(i, "failed to update staging directory")
         [] cycles[i].pc = "runRestic" ->
              \/ Performed(i, "nil")
              \/ Performed(i, "failed to run restic backup")
         [] OTHER -> FALSE
    /\ UNCHANGED <<stopPc, loopPc, ticker, cancelled, hasBooted, callbacks>>

\* lines 249-253: performBackup has returned to runBackup, which calls
\* OnBackupComplete and returns to the loop
ExitsOnError(e) == IF e = "nil" THEN "select" ELSE "exited"
AfterRunBackup(e) == "select"

runBackupReturns ==
    /\ loopPc = "runBackup"
    /\ \E i \in LoopCycles :
          /\ cycles[i].pc = "performed"
          /\ callbacks' = Append(callbacks,
                [fn |-> "OnBackupComplete", cycle |-> i, err |-> cycles[i].err])
          /\ cycles' = [cycles EXCEPT ![i].pc = "returned"]
          /\ loopPc' = AfterRunBackup(cycles[i].err)
    /\ UNCHANGED <<stopPc, ticker, cancelled, hasBooted>>

\* lines 233-234: case <-ctx.Done()
runLoopReturns ==
    /\ loopPc = "select"
    /\ cancelled
    /\ loopPc' = "exited"
    /\ UNCHANGED <<stopPc, ticker, cancelled, hasBooted, cycles, callbacks>>

\* Manager.Stop, lines 200-209, or the launcher's context ending
Stop ==
    /\ stopPc = "idle"
    /\ ~cancelled
    /\ cancelled' = TRUE
    /\ stopPc' = "wg.Wait"
    /\ UNCHANGED <<loopPc, ticker, hasBooted, cycles, callbacks>>

\* line 208: wg.Wait() returns when runLoop has called wg.Done(), after its
\* deferred close(m.done)
WaitReturns ==
    /\ stopPc = "wg.Wait"
    /\ loopPc = "exited"
    /\ stopPc' = "returned"
    /\ UNCHANGED <<loopPc, ticker, cancelled, hasBooted, cycles, callbacks>>

\* the server prints its boot line: hasBooted is set and OnBoot, once,
\* starts a goroutine that calls RunBackupNow(ctx, true)
OnBoot ==
    /\ ~hasBooted
    /\ hasBooted' = TRUE
    /\ cycles' = Append(cycles, Invocation("RunBackupNow", TRUE))
    /\ UNCHANGED <<stopPc, loopPc, ticker, cancelled, callbacks>>

\* lines 613-615: RunBackupNow returns what performBackup returned
RunBackupNow ==
    /\ \E i \in 1 .. Len(cycles) :
          /\ cycles[i].by = "RunBackupNow"
          /\ cycles[i].pc = "performed"
          /\ cycles' = [cycles EXCEPT ![i].pc = "returned"]
    /\ UNCHANGED <<stopPc, loopPc, ticker, cancelled, hasBooted, callbacks>>

-----------------------------------------------------------------------------
(* PlayerChecker: duration_test.go lines 88-208 *)

serverEventMarker == "[Server Event]"
serverChatPrefix == "[Server Chat]"

\* a line of server output is a sequence of pieces: the two markers, a
\* player name or other text, and the two endings of an event line
Pieces == {serverEventMarker, serverChatPrefix, "bob", "joins.", "left."}

RECURSIVE LinesOfLen(_)
LinesOfLen(n) ==
    IF n = 0 THEN {<< >>}
    ELSE {Append(l, c) : l \in LinesOfLen(n - 1), c \in Pieces}
Lines == UNION {LinesOfLen(n) : n \in 0 .. MaxLineLen}

\* strings.Contains and strings.Count
Contains(l, piece) == \E i \in 1 .. Len(l) : l[i] = piece
Count(l, piece) == Cardinality({i \in 1 .. Len(l) : l[i] = piece})

\* `\[Server Event\].*joins\.$` and `\[Server Event\].*left\.$`: the marker
\* somewhere in the line and the ending at its end
MatchString(l, ending) ==
    /\ Len(l) >= 2
    /\ l[Len(l)] = ending
    /\ \E i \in 1 .. Len(l) - 1 : l[i] = serverEventMarker
playerJoinPattern(l) == MatchString(l, "joins.")
playerLeavePattern(l) == MatchString(l, "left.")

PlayersIdle ==
    /\ playerCount = 0
    /\ playersOnlineAtLastCheck = FALSE
    /\ line = << >>
    /\ results = << >>
    /\ visited = FALSE

\* &backup.PlayerChecker{}
PlayersInit == PlayersIdle

\* lines 136-144: the two tests every line must pass
TrustsChat(l) == Count(l, serverEventMarker) = 1
Honored(l) ==
    /\ ~Contains(l, serverChatPrefix)
    /\ Count(l, serverEventMarker) = 1

\* lines 133-162
HandleOutput(l) ==
    /\ line' = l
    /\ IF ~Honored(l) THEN UNCHANGED <<playerCount, visited>>
       ELSE IF playerJoinPattern(l)
         THEN /\ playerCount < MaxPlayers
              /\ playerCount' = playerCount + 1
              /\ visited' = TRUE
       ELSE IF playerLeavePattern(l)
         THEN /\ playerCount' = IF playerCount - 1 < 0 THEN 0 ELSE playerCount - 1
              /\ UNCHANGED visited
       ELSE UNCHANGED <<playerCount, visited>>
    /\ UNCHANGED <<playersOnlineAtLastCheck, results>>

\* any line of output
Output == \E l \in Lines : HandleOutput(l)

\* the lines the server prints when a player joins or leaves
PlayerJoins == HandleOutput(<<serverEventMarker, "bob", "joins.">>)
PlayerLeaves == HandleOutput(<<serverEventMarker, "bob", "left.">>)

\* lines 186-208
ShouldBackup ==
    /\ Len(results) < MaxCalls
    /\ LET playersOnlineNow == playerCount > 0
           werePlayersOnlineBefore == playersOnlineAtLastCheck
       IN  /\ playersOnlineAtLastCheck' = playersOnlineNow
           /\ results' = Append(results,
                 [online |-> playersOnlineNow, visited |-> visited,
                  returned |-> IF playersOnlineNow THEN TRUE
                               ELSE IF werePlayersOnlineBefore /\ ~playersOnlineNow
                                 THEN TRUE
                               ELSE FALSE])
           /\ visited' = playersOnlineNow
    /\ UNCHANGED <<playerCount, line>>

\* The periodic tick with both gates: runLoop's case <-ticker.C, runBackup
\* and performBackup, manager.go lines 235-272, calling the PlayerChecker

\* what performBackup returns once it is past the gates, lines 274-340
CycleOutcomes ==
    {"nil", "failed to wait for backup file",
     "failed to update staging directory", "failed to run restic backup"}

\* OnBackupComplete(err, ...) for the cycle that made call number n of
\* ShouldBackup (0: the cycle made none)
Completion(n, e) ==
    callbacks' = Append(callbacks,
        [fn |-> "OnBackupComplete", cycle |-> n, err |-> e])

\* part_003 line 405: the boot line has been seen
HasBooted ==
    /\ ~hasBooted
    /\ hasBooted' = TRUE
    /\ UNCHANGED <<stopPc, loopPc, ticker, cancelled, cycles, callbacks>>
    /\ UNCHANGED playerVars

\* lines 235-236, 242-249 and 258-272: a tick, up to the two gates
TickAtGates ==
    /\ loopPc = "select"
    /\ Len(callbacks) < MaxCalls
    /\ IF ~hasBooted
         THEN /\ Completion(0, ErrServerNotBooted)
              /\ UNCHANGED loopPc
              /\ UNCHANGED playerVars
         ELSE /\ ShouldBackup
              /\ IF results'[Len(results')].returned
                   THEN loopPc' = "runBackup" /\ UNCHANGED callbacks
                   ELSE Completion(Len(results'), ErrNoPlayersOnline)
                          /\ UNCHANGED loopPc
    /\ UNCHANGED <<stopPc, ticker, cancelled, hasBooted, cycles>>

\* lines 274-340 and 249-253: the cycle ends and runBackup reports it
TickReturns ==
    /\ loopPc = "runBackup"
    /\ \E e \in CycleOutcomes : Completion(Len(results), e)
    /\ loopPc' = "select"
    /\ UNCHANGED <<stopPc, ticker, cancelled, hasBooted, cycles>>
    /\ UNCHANGED playerVars

-----------------------------------------------------------------------------
(* CommandQueue: command_queue_test.go lines 353-519 *)

\* 100 ms, in clock units of 50 ms
DefaultMinCommandDelay == 2

\* the goroutines that submit commands, and the MinDelay the queue is built
\* with (0: not set)
Submitters == {"stdin", "manager"}
MinDelays == {0, 1}
Generations == 1 .. MaxStarts

NoLoop == [pc |-> "none", cmd |-> 0, wake |-> 0, draining |-> FALSE]
NotSubmitting == [pc |-> "idle", gen |-> 0, cmd |-> 0]

QueueFresh ==
    /\ started = FALSE
    /\ lastSentTime = [zero |-> TRUE, at |-> 0]
    /\ gen = 0
    /\ queue = [g \in Generations |-> << >>]
    /\ closed = [g \in Generations |-> FALSE]
    /\ loops = [g \in Generations |-> NoLoop]
    /\ submitters = [s \in Submitters |-> NotSubmitting]
    /\ ctl = "idle"
    /\ clock = 0
    /\ nextCmd = 0
    /\ accepted = << >>
    /\ sends = << >>

QueueIdle == QueueFresh /\ MinDelay = 0

\* &server.CommandQueue{Sender: ..., MinDelay: ...}
QueueInit == QueueFresh /\ MinDelay \in MinDelays

\* lines 396-416
CommandQueueStart ==
    /\ ctl = "idle"
    /\ ~started
    /\ gen < MaxStarts
    /\ MinDelay' = IF MinDelay <= 0 THEN DefaultMinCommandDelay ELSE MinDelay
    /\ gen' = gen + 1
    /\ started' = TRUE
    /\ loops' = [loops EXCEPT ![gen + 1].pc = "select"]
    /\ UNCHANGED <<lastSentTime, queue, closed, submitters, ctl, clock, nextCmd,
                   accepted, sends>>

\* lines 418-430: up to wg.Wait()
CommandQueueStop ==
    /\ ctl = "idle"
    /\ started
    /\ started' = FALSE
    /\ closed' = [closed EXCEPT ![gen] = TRUE]
    /\ ctl' = "wg.Wait"
    /\ UNCHANGED <<MinDelay, lastSentTime, gen, queue, loops, submitters,
                   clock, nextCmd, accepted, sends>>

\* line 430: wg.Wait() returns when processLoop has called wg.Done()
ReturnsAtOnce(g) == TRUE
Waited(g) == loops[g].pc = "exited"

StopReturns ==
    /\ ctl = "wg.Wait"
    /\ Waited(gen)
    /\ ctl' = "idle"
    /\ UNCHANGED <<started, MinDelay, lastSentTime, gen, queue, closed, loops,
                   submitters, clock, nextCmd, accepted, sends>>

\* lines 435-442: the command is dropped when the queue is not started
Submit(s) ==
    /\ submitters[s].pc = "idle"
    /\ nextCmd < MaxCommands
    /\ nextCmd' = nextCmd + 1
    /\ submitters' =
          IF ~started THEN submitters
          ELSE [submitters EXCEPT
                   ![s] = [pc |-> "select", gen |-> gen, cmd |-> nextCmd + 1]]
    /\ UNCHANGED <<started, MinDelay, lastSentTime, gen, queue, closed, loops,
                   ctl, clock, accepted, sends>>

\* lines 444-451: the send to the channel, or the drop when it is full
SubmitSelect(s) ==
    /\ submitters[s].pc = "select"
    /\ LET g == submitters[s].gen
       IN  IF Len(queue[g]) < QueueCap
             THEN /\ queue' = [queue EXCEPT ![g] = Append(@, submitters[s].cmd)]
                  /\ accepted' = Append(accepted,
                        [cmd |-> submitters[s].cmd, gen |-> g, late |-> closed[g]])
             ELSE UNCHANGED <<queue, accepted>>
    /\ submitters' = [submitters EXCEPT ![s] = NotSubmitting]
    /\ UNCHANGED <<started, MinDelay, lastSentTime, gen, closed, loops, ctl,
                   clock, nextCmd, sends>>

\* lines 489-493
NoWait(elapsed) == 0
TimeToWait(elapsed) ==
    IF elapsed < MinDelay THEN MinDelay - elapsed ELSE 0

\* lines 483-493: a command was received from queue g
sendWithDelay(g) ==
    LET elapsed == clock - lastSentTime.at
        wait == IF lastSentTime.zero THEN 0 ELSE TimeToWait(elapsed)
    IN  /\ queue' = [queue EXCEPT ![g] = Tail(@)]
        /\ loops' = [loops EXCEPT
                        ![g].cmd = Head(queue[g]),
                        ![g].pc = IF wait > 0 THEN "time.Sleep" ELSE "SendCommand",
                        ![g].wake = IF wait > 0 THEN clock + wait ELSE 0]

\* lines 455-468
processLoop(g) ==
    /\ loops[g].pc = "select"
    /\ \/ /\ closed[g]
          /\ loops' = [loops EXCEPT ![g].pc = "drainQueue", ![g].draining = TRUE]
          /\ UNCHANGED queue
       \/ /\ queue[g] # << >>
          /\ sendWithDelay(g)
    /\ UNCHANGED <<started, MinDelay, lastSentTime, gen, closed, submitters, ctl,
                   clock, nextCmd, accepted, sends>>

\* lines 471-480
drainQueue(g) ==
    /\ loops[g].pc = "drainQueue"
    /\ IF queue[g] # << >>
         THEN sendWithDelay(g)
         ELSE /\ loops' = [loops EXCEPT ![g].pc = "exited"]
              /\ UNCHANGED queue
    /\ UNCHANGED <<started, MinDelay, lastSentTime, gen, closed, submitters, ctl,
                   clock, nextCmd, accepted, sends>>

\* line 492: time.Sleep returns
Wakes(g) ==
    /\ loops[g].pc = "time.Sleep"
    /\ clock >= loops[g].wake
    /\ loops' = [loops EXCEPT ![g].pc = "SendCommand", ![g].wake = 0]
    /\ UNCHANGED <<started, MinDelay, lastSentTime, gen, queue, closed,
                   submitters, ctl, clock, nextCmd, accepted, sends>>

\* line 496: cq.Sender.SendCommand(cmd) is called
SendCommand(g) ==
    /\ loops[g].pc = "SendCommand"
    /\ sends' = Append(sends, [cmd |-> loops[g].cmd, at |-> clock, by |-> g])
    /\ loops' = [loops EXCEPT ![g].pc = "sending"]
    /\ UNCHANGED <<started, MinDelay, lastSentTime, gen, queue, closed,
                   submitters, ctl, clock, nextCmd, accepted>>

\* lines 496-505: it returns, with or without an error
SendReturns(g) ==
    /\ loops[g].pc = "sending"
    /\ lastSentTime' = [zero |-> FALSE, at |-> clock]
    /\ loops' = [loops EXCEPT
                    ![g].pc = IF loops[g].draining THEN "drainQueue" ELSE "select",
                    ![g].cmd = 0]
    /\ UNCHANGED <<started, MinDelay, gen, queue, closed, submitters, ctl,
                   clock, nextCmd, accepted, sends>>

ClockTick ==
    /\ clock < MaxTime
    /\ clock' = clock + 1
    /\ UNCHANGED <<started, MinDelay, lastSentTime, gen, queue, closed, loops,
                   submitters, ctl, nextCmd, accepted, sends>>

-----------------------------------------------------------------------------
(* SyncDir: part_005 lines 779-913 *)

\* the paths a tree may have, below src as below dst, and what is at a path
SyncPaths == {<<"a">>, <<"a", "b">>, <<"a", "b", "f">>, <<"a", "g">>, <<"h">>}
SyncKinds == {"absent", "dir", "file 0", "file 1"}
SyncData(kind) == IF kind = "file 0" THEN <<0>> ELSE <<1>>

\* whatever is at a path is in a directory
SyncShapes ==
    {k \in [SyncPaths -> SyncKinds] :
        \A q \in SyncPaths :
            (k[q] # "absent" /\ Len(q) > 1) => k[Dir(q)] = "dir"}

SyncTree(k) ==
    [files |-> [q \in {q \in SyncPaths : k[q] \in {"file 0", "file 1"}} |->
                   [data |-> SyncData(k[q]), mtime |-> 0]],
     dirs |-> {<< >>} \cup {q \in SyncPaths : k[q] = "dir"}]

SyncTrees == {SyncTree(k) : k \in SyncShapes}
EmptyTree == [files |-> [q \in {} |-> 0], dirs |-> {<< >>}]

NotCalled ==
    [called |-> FALSE, written |-> 0, skipped |-> 0, removed |-> 0, err |-> "nil"]

SyncIdle ==
    /\ syncSrc = EmptyTree
    /\ syncDst = EmptyTree
    /\ syncOld = EmptyTree
    /\ syncRet = NotCalled

SyncInit ==
    /\ syncSrc \in SyncTrees
    /\ syncDst \in SyncTrees
    /\ syncOld = syncDst
    /\ syncRet = NotCalled

\* lines 779-801: a file written during the call has modification time 1
CopyFileIfChanged(st, src, q) ==
    LET srcData == src.files[q].data
    IN  IF fileMatchesContent(st.fs, q, srcData)
          THEN [st EXCEPT !.skipped = @ + 1]
        ELSE IF ~MkdirAllOk(st.fs, Dir(q))
          THEN [st EXCEPT !.err = "failed to create directory"]
        ELSE IF ~WriteFileOk(MkdirAll(st.fs, Dir(q)), q)
          THEN [st EXCEPT !.err = "failed to write destination file"]
        ELSE [st EXCEPT !.fs = WriteFile(MkdirAll(st.fs, Dir(q)), q, srcData, 1),
                        !.written = @ + 1]

\* lines 811-841: the walk function, called with each path below src
CopyEntry(st, src, q) ==
    IF q \in src.dirs
      THEN IF MkdirAllOk(st.fs, q) /\ q \notin DOMAIN st.fs.files
             THEN [st EXCEPT !.fs = MkdirAll(@, q)]
             ELSE [st EXCEPT !.err = "mkdir"]
      ELSE CopyFileIfChanged([st EXCEPT !.expectedFiles = @ \cup {q}], src, q)

\* lines 810-850: filepath.Walk(src, ...) stops at the first error
RECURSIVE copyDirIfChangedWithTracking(_, _, _)
copyDirIfChangedWithTracking(st, src, paths) ==
    IF paths = << >> \/ st.err # "nil" THEN st
    ELSE copyDirIfChangedWithTracking(CopyEntry(st, src, Head(paths)), src,
                                      Tail(paths))

\* lines 870-887: the files below dst outside the expected set are removed
RECURSIVE RemoveUnexpected(_, _)
RemoveUnexpected(st, paths) ==
    IF paths = << >> THEN st
    ELSE IF Head(paths) \notin st.expectedFiles
      THEN RemoveUnexpected([st EXCEPT !.fs = RemoveFile(@, Head(paths)),
                                       !.removed = @ + 1], Tail(paths))
    ELSE RemoveUnexpected(st, Tail(paths))

\* lines 901-913: each directory below the root, in the order of the walk,
\* is removed if it is empty when the walk reaches it
RECURSIVE CleanupWalk(_, _)
CleanupWalk(fs, ds) ==
    IF ds = << >> THEN fs
    ELSE IF Entries(fs, Head(ds)) = {}
      THEN CleanupWalk(RemoveDir(fs, Head(ds)), Tail(ds))
    ELSE CleanupWalk(fs, Tail(ds))

cleanupEmptyDirsInPath(fs) == CleanupWalk(fs, WalkOrder(fs.dirs \ {<< >>}))

\* lines 858-898
SyncDir ==
    /\ ~syncRet.called
    /\ LET start == [fs |-> syncDst, written |-> 0, skipped |-> 0, removed |-> 0,
                     expectedFiles |-> {}, err |-> "nil"]
           copied == copyDirIfChangedWithTracking(start, syncSrc,
                        WalkOrder(syncSrc.dirs \cup DOMAIN syncSrc.files))
           swept == RemoveUnexpected(copied, WalkOrder(DOMAIN copied.fs.files))
       IN  IF copied.err # "nil"
             THEN /\ syncDst' = copied.fs
                  /\ syncRet' = [called |-> TRUE, written |-> copied.written,
                                 skipped |-> copied.skipped, removed |-> 0,
                                 err |-> copied.err]
             ELSE /\ syncDst' = cleanupEmptyDirsInPath(swept.fs)
                  /\ syncRet' = [called |-> TRUE, written |-> swept.written,
                                 skipped |-> swept.skipped,
                                 removed |-> swept.removed, err |-> "nil"]
    /\ UNCHANGED <<syncSrc, syncOld>>

-----------------------------------------------------------------------------
(* Server.readOutput and the boot flag: part_003 lines 142-183, 401-406 *)

Streams == {"[stdout]", "[stderr]"}

BootIdle ==
    /\ readers = [r \in Streams |-> [pc |-> "off", lines |-> 0]]
    /\ bootOnce = "new"
    /\ booted = FALSE
    /\ onBootCalls = << >>

\* lines 142-143: Start has started the two readers
BootInit ==
    /\ readers = [r \in Streams |-> [pc |-> "Scan", lines |-> 0]]
    /\ bootOnce = "new"
    /\ booted = FALSE
    /\ onBootCalls = << >>

\* lines 162-166: a line is read; it holds BootPattern or it does not
Scan(r) ==
    /\ readers[r].pc = "Scan"
    /\ readers[r].lines < MaxLines
    /\ \E hasPattern \in BOOLEAN :
          readers' = [readers EXCEPT
                         ![r].lines = @ + 1,
                         ![r].pc = IF hasPattern THEN "bootOnce.Do" ELSE "OnOutput"]
    /\ UNCHANGED <<bootOnce, booted, onBootCalls>>

\* sync.Once: the first caller runs the function, a caller that comes while
\* it runs waits for it, a later caller returns at once
RunsEveryTime(once) == TRUE
RunsFunction(once) == once = "new"

\* line 167
bootOnceDo(r) ==
    /\ readers[r].pc = "bootOnce.Do"
    /\ IF RunsFunction(bootOnce)
         THEN /\ bootOnce' = "running"
              /\ readers' = [readers EXCEPT ![r].pc = "hasBooted.Store"]
         ELSE /\ bootOnce = "done"
              /\ readers' = [readers EXCEPT ![r].pc = "OnOutput"]
              /\ UNCHANGED bootOnce
    /\ UNCHANGED <<booted, onBootCalls>>

\* line 168
hasBootedStore(r) ==
    /\ readers[r].pc = "hasBooted.Store"
    /\ booted' = TRUE
    /\ readers' = [readers EXCEPT ![r].pc = "OnBoot"]
    /\ UNCHANGED <<bootOnce, onBootCalls>>

\* lines 169-172: OnBoot is called and the function of Do returns
CallOnBoot(r) ==
    /\ readers[r].pc = "OnBoot"
    /\ onBootCalls' = Append(onBootCalls, [by |-> r, HasBooted |-> booted])
    /\ bootOnce' = "done"
    /\ readers' = [readers EXCEPT ![r].pc = "OnOutput"]
    /\ UNCHANGED booted

\* lines 175-181: the output handlers, which do not touch the flag
OnOutput(r) ==
    /\ readers[r].pc = "OnOutput"
    /\ readers' = [readers EXCEPT ![r].pc = "Scan"]
    /\ UNCHANGED <<bootOnce, booted, onBootCalls>>

-----------------------------------------------------------------------------
(* The /genbackup command and the wait for the completion line:            *)
(* manager.go lines 283-295 and 343-350, part_003 lines 186-198, 257-279   *)
(* and 433-481, command_queue_test.go lines 508-516                        *)

Senders == {"Server", "CommandQueue"}

WaitFresh ==
    /\ delivered = FALSE
    /\ outputHandlers = FALSE
    /\ matchCh = FALSE
    /\ waitCtxDone = FALSE
    /\ printed = 0
    /\ completed = FALSE
    /\ waitRet = "pending"

WaitIdle ==
    /\ sender = "Server"
    /\ queueAccepts = FALSE
    /\ serverDone = FALSE
    /\ waitPc = "off"
    /\ WaitFresh

\* the cycle has passed its gates; main.go line 119 makes the CommandQueue
\* the sender, the tests use a Server
WaitInit ==
    /\ sender \in Senders
    /\ queueAccepts \in BOOLEAN
    /\ sender = "Server" => ~queueAccepts
    /\ serverDone \in BOOLEAN
    /\ waitPc = "SendCommand"
    /\ WaitFresh

\* part_003 lines 257-279: Server.SendCommand
AlwaysNil(running) == "nil"
ServerSendCommand(running) == IF running THEN "nil" ELSE "ErrServerNotRunning"

\* command_queue_test.go lines 513-516: CommandQueue.SendCommand
QueueSendCommand == "nil"

WaitReturn(e) ==
    /\ waitRet' = e
    /\ waitPc' = "returned"

\* manager.go lines 283-286
SendGenbackup ==
    /\ waitPc = "SendCommand"
    /\ LET e == IF sender = "Server" THEN ServerSendCommand(~serverDone)
                ELSE QueueSendCommand
       IN  IF e # "nil"
             THEN /\ WaitReturn("failed to send genbackup command")
                  /\ UNCHANGED delivered
             ELSE /\ waitPc' = "WaitForBackupComplete"
                  /\ delivered' = (~serverDone /\ (sender = "Server" \/ queueAccepts))
                  /\ UNCHANGED waitRet
    /\ UNCHANGED <<sender, queueAccepts, serverDone, outputHandlers, matchCh,
                   waitCtxDone, printed, completed>>

\* part_003 lines 434-439
WaitChecksDone ==
    /\ waitPc = "WaitForBackupComplete"
    /\ IF serverDone THEN WaitReturn("ErrServerNotRunning")
       ELSE waitPc' = "addHandler" /\ UNCHANGED waitRet
    /\ UNCHANGED <<sender, queueAccepts, serverDone, delivered, outputHandlers,
                   matchCh, waitCtxDone, printed, completed>>

\* part_003 lines 441-462
addHandler ==
    /\ waitPc = "addHandler"
    /\ outputHandlers' = TRUE
    /\ waitPc' = "select"
    /\ UNCHANGED <<sender, queueAccepts, serverDone, delivered, matchCh,
                   waitCtxDone, printed, completed, waitRet>>

\* part_003 lines 162-198: the server prints a line, which ends in
\* BackupCompletePattern or does not, and it goes to the handlers
dispatchToHandlers ==
    /\ ~serverDone
    /\ printed < MaxLines
    /\ printed' = printed + 1
    /\ \E complete \in BOOLEAN :
          /\ completed' = (completed \/ (complete /\ waitPc # "SendCommand"
                                            /\ waitPc # "returned" /\ ~waitCtxDone))
          /\ IF ~outputHandlers THEN UNCHANGED <<outputHandlers, matchCh>>
             ELSE IF waitPc = "returned"
               THEN outputHandlers' = FALSE /\ UNCHANGED matchCh
             ELSE IF complete
               THEN outputHandlers' = FALSE /\ matchCh' = TRUE
             ELSE UNCHANGED <<outputHandlers, matchCh>>
    /\ UNCHANGED <<sender, queueAccepts, serverDone, waitPc, delivered,
                   waitCtxDone, waitRet>>

\* part_003 lines 464-480: the select takes any case that is ready
WaitSelects ==
    /\ waitPc = "select"
    /\ \/ matchCh /\ WaitReturn("nil")
       \/ waitCtxDone /\ WaitReturn("ErrPatternTimeout")
       \/ serverDone /\ WaitReturn(IF matchCh THEN "nil" ELSE "ErrServerExited")
    /\ UNCHANGED <<sender, queueAccepts, serverDone, delivered, outputHandlers,
                   matchCh, waitCtxDone, printed, completed>>

\* manager.go lines 288-290: BackupTimeout passes
DeadlinePasses ==
    /\ waitPc \notin {"SendCommand", "returned"}
    /\ ~waitCtxDone
    /\ waitCtxDone' = TRUE
    /\ UNCHANGED <<sender, queueAccepts, serverDone, waitPc, delivered,
                   outputHandlers, matchCh, printed, completed, waitRet>>

\* part_003 lines 208-215: the process exits
ServerExits ==
    /\ ~serverDone
    /\ serverDone' = TRUE
    /\ UNCHANGED <<sender, queueAccepts, waitPc, delivered, outputHandlers, matchCh,
                   waitCtxDone, printed, completed, waitRet>>

ServiceIdle ==
    SchedIdle /\ PlayersIdle /\ QueueIdle /\ SyncIdle /\ BootIdle /\ WaitIdle

----------------------------------------------------------------------------
(* Specifications *)

CodecNext == Extract /\ UNCHANGED <<uidVars, cacheVars, treeVars, cycleVars, serviceVars>>

InitCodec == CodecInit /\ UidIdle /\ CacheIdle /\ TreeIdle /\ CycleIdle /\ ServiceIdle

SpecCodec == InitCodec /\ [][CodecNext]_vars

UidNext ==
    \/ Sanitize /\ UNCHANGED <<codecVars, cacheVars, treeVars, cycleVars, serviceVars>>
    \/ Unsanitize /\ UNCHANGED <<codecVars, cacheVars, treeVars, cycleVars, serviceVars>>

InitUID == UidInit /\ CodecIdle /\ CacheIdle /\ TreeIdle /\ CycleIdle /\ ServiceIdle

SpecUID == InitUID /\ [][UidNext]_vars

TreeNext ==
    \/ Split /\ UNCHANGED <<codecVars, uidVars, cacheVars, cycleVars, serviceVars>>
    \/ Combine /\ UNCHANGED <<codecVars, uidVars, cacheVars, cycleVars, serviceVars>>

InitTree == TreeInit /\ CodecIdle /\ UidIdle /\ CacheIdle /\ CycleIdle /\ ServiceIdle

SpecTree == InitTree /\ [][TreeNext]_vars

CombineNext ==
    \/ Split /\ UNCHANGED <<codecVars, uidVars, cacheVars, cycleVars, serviceVars>>
    \/ PlantFile /\ UNCHANGED <<codecVars, uidVars, cacheVars, cycleVars, serviceVars>>
    \/ RemoveSubdir /\ UNCHANGED <<codecVars, uidVars, cacheVars, cycleVars, serviceVars>>
    \/ Combine /\ UNCHANGED <<codecVars, uidVars, cacheVars, cycleVars, serviceVars>>

InitCombine == CombineInit /\ CodecIdle /\ UidIdle /\ CacheIdle /\ CycleIdle /\ ServiceIdle

SpecCombine == InitCombine /\ [][CombineNext]_vars

CycleNext ==
    \/ BootGate /\ UNCHANGED <<codecVars, uidVars, cacheVars, treeVars, serviceVars>>
    \/ PlayerGate /\ UNCHANGED <<codecVars, uidVars, cacheVars, treeVars, serviceVars>>
    \/ getSaveFileName /\ UNCHANGED <<codecVars, uidVars, cacheVars, treeVars, serviceVars>>
    \/ Trigger /\ UNCHANGED <<codecVars, uidVars, cacheVars, treeVars, serviceVars>>
    \/ WaitForBackupComplete /\ UNCHANGED <<codecVars, uidVars, cacheVars, treeVars, serviceVars>>
    \/ Poll /\ UNCHANGED <<codecVars, uidVars, cacheVars, treeVars, serviceVars>>
    \/ CtxDone /\ UNCHANGED <<codecVars, uidVars, cacheVars, treeVars, serviceVars>>
    \/ Stage /\ UNCHANGED <<codecVars, uidVars, cacheVars, treeVars, serviceVars>>
    \/ Convert /\ UNCHANGED <<codecVars, uidVars, cacheVars, treeVars, serviceVars>>
    \/ Snapshot /\ UNCHANGED <<codecVars, uidVars, cacheVars, treeVars, serviceVars>>
    \/ Prune /\ UNCHANGED <<codecVars, uidVars, cacheVars, treeVars, serviceVars>>
    \/ Advance /\ UNCHANGED <<codecVars, uidVars, cacheVars, treeVars, serviceVars>>
    \/ Tick /\ UNCHANGED <<codecVars, uidVars, cacheVars, treeVars, serviceVars>>
    \/ Expire /\ UNCHANGED <<codecVars, uidVars, cacheVars, treeVars, serviceVars>>
    \/ ServerWrites /\ UNCHANGED <<codecVars, uidVars, cacheVars, treeVars, serviceVars>>
    \/ ServerUnlocks /\ UNCHANGED <<codecVars, uidVars, cacheVars, treeVars, serviceVars>>

InitCycle ==
    CycleInit /\ CodecIdle /\ UidIdle /\ CacheIdle /\ TreeIdle /\ ServiceIdle

SpecCycle == InitCycle /\ [][CycleNext]_vars

RepeatNext ==
    \/ BootGate /\ UNCHANGED <<codecVars, uidVars, cacheVars, treeVars, serviceVars>>
    \/ PlayerGate /\ UNCHANGED <<codecVars, uidVars, cacheVars, treeVars, serviceVars>>
    \/ getSaveFileName /\ UNCHANGED <<codecVars, uidVars, cacheVars, treeVars, serviceVars>>
    \/ Trigger /\ UNCHANGED <<codecVars, uidVars, cacheVars, treeVars, serviceVars>>
    \/ WaitForBackupComplete /\ UNCHANGED <<codecVars, uidVars, cacheVars, treeVars, serviceVars>>
    \/ Poll /\ UNCHANGED <<codecVars, uidVars, cacheVars, treeVars, serviceVars>>
    \/ CtxDone /\ UNCHANGED <<codecVars, uidVars, cacheVars, treeVars, serviceVars>>
    \/ Stage /\ UNCHANGED <<codecVars, uidVars, cacheVars, treeVars, serviceVars>>
    \/ Convert /\ UNCHANGED <<codecVars, uidVars, cacheVars, treeVars, serviceVars>>
    \/ Snapshot /\ UNCHANGED <<codecVars, uidVars, cacheVars, treeVars, serviceVars>>
    \/ Prune /\ UNCHANGED <<codecVars, uidVars, cacheVars, treeVars, serviceVars>>
    \/ Advance /\ UNCHANGED <<codecVars, uidVars, cacheVars, treeVars, serviceVars>>
    \/ Tick /\ UNCHANGED <<codecVars, uidVars, cacheVars, treeVars, serviceVars>>
    \/ Expire /\ UNCHANGED <<codecVars, uidVars, cacheVars, treeVars, serviceVars>>
    \/ ServerGenerates /\ UNCHANGED <<codecVars, uidVars, cacheVars, treeVars, serviceVars>>
    \/ ServerFinishes /\ UNCHANGED <<codecVars, uidVars, cacheVars, treeVars, serviceVars>>
    \/ NextTick /\ UNCHANGED <<codecVars, uidVars, cacheVars, treeVars, serviceVars>>

\* the launcher's configuration, main.go lines 116-139, with a restic runner
InitRepeat ==
    /\ CycleInit
    /\ config = [BootChecker |-> "true", skipPlayerCheck |-> FALSE,
                 PauseWhenNoPlayers |-> TRUE, PlayerChecker |-> "true",
                 BackupCompletionWaiter |-> TRUE, PruneRetention |-> << >>,
                 ResticRunner |-> TRUE, PruneRunner |-> FALSE]
    /\ gameData = [aux |-> AuxItems, serverconfig |-> "/gamedata/Saves/world.vcdbs"]
    /\ CodecIdle /\ UidIdle /\ CacheIdle /\ TreeIdle /\ ServiceIdle

\* the ticker keeps firing and every step that can be taken is taken
SpecRepeat == InitRepeat /\ [][RepeatNext]_vars /\ WF_cycleVars(RepeatNext)

LoopNext ==
    \/ LoopTick /\ UNCHANGED <<codecVars, uidVars, cacheVars, treeVars, cycleVars, playerVars, queueVars, syncVars, bootVars, waitVars>>
    \/ runBackup /\ UNCHANGED <<codecVars, uidVars, cacheVars, treeVars, cycleVars, playerVars, queueVars, syncVars, bootVars, waitVars>>
    \/ (\E i \in 1 .. Len(cycles) : performBackup(i))
          /\ UNCHANGED <<codecVars, uidVars, cacheVars, treeVars, cycleVars, playerVars, queueVars, syncVars, bootVars, waitVars>>
    \/ runBackupReturns
          /\ UNCHANGED <<codecVars, uidVars, cacheVars, treeVars, cycleVars, playerVars, queueVars, syncVars, bootVars, waitVars>>
    \/ runLoopReturns
          /\ UNCHANGED <<codecVars, uidVars, cacheVars, treeVars, cycleVars, playerVars, queueVars, syncVars, bootVars, waitVars>>
    \/ Stop /\ UNCHANGED <<codecVars, uidVars, cacheVars, treeVars, cycleVars, playerVars, queueVars, syncVars, bootVars, waitVars>>
    \/ WaitReturns /\ UNCHANGED <<codecVars, uidVars, cacheVars, treeVars, cycleVars, playerVars, queueVars, syncVars, bootVars, waitVars>>
    \/ OnBoot /\ UNCHANGED <<codecVars, uidVars, cacheVars, treeVars, cycleVars, playerVars, queueVars, syncVars, bootVars, waitVars>>
    \/ RunBackupNow
          /\ UNCHANGED <<codecVars, uidVars, cacheVars, treeVars, cycleVars, playerVars, queueVars, syncVars, bootVars, waitVars>>

InitLoop ==
    SchedInit /\ CodecIdle /\ UidIdle /\ CacheIdle /\ TreeIdle /\ CycleIdle
        /\ PlayersIdle /\ QueueIdle /\ SyncIdle /\ BootIdle /\ WaitIdle

SpecLoop ==
    InitLoop /\ [][LoopNext]_vars /\ WF_schedVars(runBackup \/ runLoopReturns)

PlayersNext ==
    \/ PlayerJoins
          /\ UNCHANGED <<codecVars, uidVars, cacheVars, treeVars, cycleVars, schedVars, queueVars, syncVars, bootVars, waitVars>>
    \/ PlayerLeaves
          /\ UNCHANGED <<codecVars, uidVars, cacheVars, treeVars, cycleVars, schedVars, queueVars, syncVars, bootVars, waitVars>>
    \/ ShouldBackup
          /\ UNCHANGED <<codecVars, uidVars, cacheVars, treeVars, cycleVars, schedVars, queueVars, syncVars, bootVars, waitVars>>

InitPlayers ==
    PlayersInit /\ CodecIdle /\ UidIdle /\ CacheIdle /\ TreeIdle /\ CycleIdle
        /\ SchedIdle /\ QueueIdle /\ SyncIdle /\ BootIdle /\ WaitIdle

SpecPlayers == InitPlayers /\ [][PlayersNext]_vars

TickNext ==
    \/ HasBooted /\ UNCHANGED <<codecVars, uidVars, cacheVars, treeVars, cycleVars, queueVars, syncVars, bootVars, waitVars>>
    \/ TickAtGates /\ UNCHANGED <<codecVars, uidVars, cacheVars, treeVars, cycleVars, queueVars, syncVars, bootVars, waitVars>>
    \/ TickReturns /\ UNCHANGED <<codecVars, uidVars, cacheVars, treeVars, cycleVars, queueVars, syncVars, bootVars, waitVars>>
    \/ PlayerJoins /\ UNCHANGED schedVars
          /\ UNCHANGED <<codecVars, uidVars, cacheVars, treeVars, cycleVars, queueVars, syncVars, bootVars, waitVars>>
    \/ PlayerLeaves /\ UNCHANGED schedVars
          /\ UNCHANGED <<codecVars, uidVars, cacheVars, treeVars, cycleVars, queueVars, syncVars, bootVars, waitVars>>

InitTick ==
    SchedInit /\ PlayersInit /\ CodecIdle /\ UidIdle /\ CacheIdle /\ TreeIdle
        /\ CycleIdle /\ QueueIdle /\ SyncIdle /\ BootIdle /\ WaitIdle

SpecTick == InitTick /\ [][TickNext]_vars

OutputNext ==
    Output /\ UNCHANGED <<codecVars, uidVars, cacheVars, treeVars, cycleVars, schedVars, queueVars, syncVars, bootVars, waitVars>>

SpecOutput == InitPlayers /\ [][OutputNext]_vars

QueueNext ==
    \/ (CommandQueueStart)
          /\ UNCHANGED <<codecVars, uidVars, cacheVars, treeVars, cycleVars, schedVars, playerVars, syncVars, bootVars, waitVars>>
    \/ (CommandQueueStop)
          /\ UNCHANGED <<codecVars, uidVars, cacheVars, treeVars, cycleVars, schedVars, playerVars, syncVars, bootVars, waitVars>>
    \/ (StopReturns)
          /\ UNCHANGED <<codecVars, uidVars, cacheVars, treeVars, cycleVars, schedVars, playerVars, syncVars, bootVars, waitVars>>
    \/ (\E s \in Submitters : Submit(s))
          /\ UNCHANGED <<codecVars, uidVars, cacheVars, treeVars, cycleVars, schedVars, playerVars, syncVars, bootVars, waitVars>>
    \/ (\E s \in Submitters : SubmitSelect(s))
          /\ UNCHANGED <<codecVars, uidVars, cacheVars, treeVars, cycleVars, schedVars, playerVars, syncVars, bootVars, waitVars>>
    \/ (\E g \in Generations : processLoop(g))
          /\ UNCHANGED <<codecVars, uidVars, cacheVars, treeVars, cycleVars, schedVars, playerVars, syncVars, bootVars, waitVars>>
    \/ (\E g \in Generations : drainQueue(g))
          /\ UNCHANGED <<codecVars, uidVars, cacheVars, treeVars, cycleVars, schedVars, playerVars, syncVars, bootVars, waitVars>>
    \/ (\E g \in Generations : Wakes(g))
          /\ UNCHANGED <<codecVars, uidVars, cacheVars, treeVars, cycleVars, schedVars, playerVars, syncVars, bootVars, waitVars>>
    \/ (\E g \in Generations : SendCommand(g))
          /\ UNCHANGED <<codecVars, uidVars, cacheVars, treeVars, cycleVars, schedVars, playerVars, syncVars, bootVars, waitVars>>
    \/ (\E g \in Generations : SendReturns(g))
          /\ UNCHANGED <<codecVars, uidVars, cacheVars, treeVars, cycleVars, schedVars, playerVars, syncVars, bootVars, waitVars>>
    \/ (ClockTick)
          /\ UNCHANGED <<codecVars, uidVars, cacheVars, treeVars, cycleVars, schedVars, playerVars, syncVars, bootVars, waitVars>>

InitQueue ==
    QueueInit /\ CodecIdle /\ UidIdle /\ CacheIdle /\ TreeIdle /\ CycleIdle
        /\ SchedIdle /\ PlayersIdle /\ SyncIdle /\ BootIdle /\ WaitIdle

SpecQueue == InitQueue /\ [][QueueNext]_vars

SyncNext ==
    SyncDir /\ UNCHANGED <<codecVars, uidVars, cacheVars, treeVars, cycleVars,
                           schedVars, playerVars, queueVars, bootVars, waitVars>>

InitSync ==
    SyncInit /\ CodecIdle /\ UidIdle /\ CacheIdle /\ TreeIdle /\ CycleIdle
        /\ SchedIdle /\ PlayersIdle /\ QueueIdle /\ BootIdle /\ WaitIdle

SpecSync == InitSync /\ [][SyncNext]_vars

BootNext ==
    \/ (\E r \in Streams : Scan(r))
          /\ UNCHANGED <<codecVars, uidVars, cacheVars, treeVars, cycleVars, schedVars, playerVars, queueVars, syncVars, waitVars>>
    \/ (\E r \in Streams : bootOnceDo(r))
          /\ UNCHANGED <<codecVars, uidVars, cacheVars, treeVars, cycleVars, schedVars, playerVars, queueVars, syncVars, waitVars>>
    \/ (\E r \in Streams : hasBootedStore(r))
          /\ UNCHANGED <<codecVars, uidVars, cacheVars, treeVars, cycleVars, schedVars, playerVars, queueVars, syncVars, waitVars>>
    \/ (\E r \in Streams : CallOnBoot(r))
          /\ UNCHANGED <<codecVars, uidVars, cacheVars, treeVars, cycleVars, schedVars, playerVars, queueVars, syncVars, waitVars>>
    \/ (\E r \in Streams : OnOutput(r))
          /\ UNCHANGED <<codecVars, uidVars, cacheVars, treeVars, cycleVars, schedVars, playerVars, queueVars, syncVars, waitVars>>

InitBoot ==
    BootInit /\ CodecIdle /\ UidIdle /\ CacheIdle /\ TreeIdle /\ CycleIdle
        /\ SchedIdle /\ PlayersIdle /\ QueueIdle /\ SyncIdle /\ WaitIdle

SpecBoot == InitBoot /\ [][BootNext]_vars

WaitNext ==
    \/ SendGenbackup
          /\ UNCHANGED <<codecVars, uidVars, cacheVars, treeVars, cycleVars, schedVars, playerVars, queueVars, syncVars, bootVars>>
    \/ WaitChecksDone
          /\ UNCHANGED <<codecVars, uidVars, cacheVars, treeVars, cycleVars, schedVars, playerVars, queueVars, syncVars, bootVars>>
    \/ addHandler
          /\ UNCHANGED <<codecVars, uidVars, cacheVars, treeVars, cycleVars, schedVars, playerVars, queueVars, syncVars, bootVars>>
    \/ dispatchToHandlers
          /\ UNCHANGED <<codecVars, uidVars, cacheVars, treeVars, cycleVars, schedVars, playerVars, queueVars, syncVars, bootVars>>
    \/ WaitSelects
          /\ UNCHANGED <<codecVars, uidVars, cacheVars, treeVars, cycleVars, schedVars, playerVars, queueVars, syncVars, bootVars>>
    \/ DeadlinePasses
          /\ UNCHANGED <<codecVars, uidVars, cacheVars, treeVars, cycleVars, schedVars, playerVars, queueVars, syncVars, bootVars>>
    \/ ServerExits
          /\ UNCHANGED <<codecVars, uidVars, cacheVars, treeVars, cycleVars, schedVars, playerVars, queueVars, syncVars, bootVars>>

InitWait ==
    WaitInit /\ CodecIdle /\ UidIdle /\ CacheIdle /\ TreeIdle /\ CycleIdle
        /\ SchedIdle /\ PlayersIdle /\ QueueIdle /\ SyncIdle /\ BootIdle

SpecWait == InitWait /\ [][WaitNext]_vars

Next ==
    \/ InsertRow /\ UNCHANGED <<codecVars, uidVars, treeVars, cycleVars, serviceVars>>
    \/ UpdateRow /\ UNCHANGED <<codecVars, uidVars, treeVars, cycleVars, serviceVars>>
    \/ DeleteRow /\ UNCHANGED <<codecVars, uidVars, treeVars, cycleVars, serviceVars>>
    \/ SplitWithCache /\ UNCHANGED <<codecVars, uidVars, treeVars, cycleVars, serviceVars>>

Init == CacheInit /\ CodecIdle /\ UidIdle /\ TreeIdle /\ CycleIdle /\ ServiceIdle

Spec == Init /\ [][Next]_vars

----------------------------------------------------------------------------
(* Claims *)

\* the rows of table t that are stored as files, each with its path
RowsOf(src, t) ==
    CASE t = "chunk" -> ShardedRows(src.chunk, "chunks")
      [] t = "mapchunk" -> ShardedRows(src.mapchunk, "mapchunks")
      [] t = "mapregion" -> ShardedRows(src.mapregion, "mapregions")
      [] t = "gamedata" -> GamedataRows(src.gamedata)
      [] t = "playerdata" -> PlayerdataRows(src.playerdata)

StoredPaths(src) == UNION {{r.path : r \in RowsOf(src, t)} : t \in Tables}

StoredCount(src) ==
    Cardinality(RowsOf(src, "chunk")) + Cardinality(RowsOf(src, "mapchunk"))
        + Cardinality(RowsOf(src, "mapregion")) + Cardinality(RowsOf(src, "gamedata"))
        + Cardinality(RowsOf(src, "playerdata"))

\* the path the mapping gives to key k of table t
RowPath(t, k) ==
    CASE t = "chunk" -> GetShardedPath("chunks", k)
      [] t = "mapchunk" -> GetShardedPath("mapchunks", k)
      [] t = "mapregion" -> GetShardedPath("mapregions", k)
      [] t = "gamedata" -> <<"gamedata", FormatInt(k) \o BinExt>>
      [] t = "playerdata" -> <<"playerdata", sanitizePlayerUID(k) \o BinExt>>

NonNullPaths(src) ==
    UNION {{RowPath(t, k) : k \in {k \in DOMAIN src[t] : src[t][k] # Null}} :
              t \in Tables}

ManagedFiles(fs) == {p \in DOMAIN fs.files : p[1] \in rootDirs}

\* a file exists at the row's path with the size and the bytes of its blob
SameBytes(fs, r) ==
    /\ r.path \in DOMAIN fs.files
    /\ Len(fs.files[r.path].data) = Len(r.data)
    /\ fs.files[r.path].data = r.data

\* the file at p holds data and was last written before / during the call
KeptFile(fs, p, data) ==
    p \in DOMAIN fs.files /\ fs.files[p] = [data |-> data, mtime |-> 0]
FreshFile(fs, p, data) ==
    p \in DOMAIN fs.files /\ fs.files[p] = [data |-> data, mtime |-> 1]

SameKeys(old, new) == \A t \in Tables : DOMAIN old[t] = DOMAIN new[t]
ChangedIn(old, new, t) ==
    {k \in DOMAIN old[t] \cap DOMAIN new[t] : old[t][k] # new[t][k]}
ChangedCount(old, new) ==
    Cardinality(ChangedIn(old, new, "chunk"))
        + Cardinality(ChangedIn(old, new, "mapchunk"))
        + Cardinality(ChangedIn(old, new, "mapregion"))
        + Cardinality(ChangedIn(old, new, "gamedata"))
        + Cardinality(ChangedIn(old, new, "playerdata"))

C7_DistinctRowsDistinctPaths ==
    treePc # "off" =>
        \A t1, t2 \in Tables :
            \A r1 \in RowsOf(source, t1), r2 \in RowsOf(source, t2) :
                (t1 # t2 \/ r1.key # r2.key) => r1.path # r2.path

\* C8: after Split, Combine and Split again, the restored store holds, for
\* every stored row of the source, a row with the same key and the same
\* bytes, and the second tree holds the row's file with the same bytes.
C8_RoundTripReproducesRows ==
    (treePc = "resplit" /\ treeErr = "nil") =>
        \A t \in Tables : \A r \in RowsOf(source, t) :
            /\ IF t = "playerdata"
                 THEN \E i \in DOMAIN restored.playerdata :
                         restored.playerdata[i] = [key |-> r.key, data |-> r.data]
                 ELSE r.key \in DOMAIN restored[t] /\ restored[t][r.key] = r.data
            /\ r.path \in DOMAIN tree2.files
            /\ tree2.files[r.path].data = r.data

\* C9: sanitization is a bijection on the UIDs that do not otherwise contain
\* '-' or '_': unsanitizePlayerUID(sanitizePlayerUID(u)) = u for every such
\* UID, and no other such UID receives the same file name.
C9_SanitizeBijection ==
    (uidPc = "restored" /\ PlainUID(playeruid)) =>
        /\ restoredUID = playeruid
        /\ \A other \in UIDs :
              (PlainUID(other) /\ sanitizePlayerUID(other) = safeUID)
                  => other = playeruid

\* C10: for every signed 21-bit v and every position whose bits 0-20 hold v,
\* extractChunkX returns v, and likewise extractChunkZ for bits 27-47,
\* whatever the other bits of the position are.
C10_ExtractRoundTrip ==
    codecPc = "extracted" => (chunkX = wantX /\ chunkZ = wantZ)

\* a position with both fields negative and every opaque bit set was decoded
C10_Witness ==
    /\ codecPc = "extracted"
    /\ wantX = Min21
    /\ wantZ = -1
    /\ position[1] = 65535
    /\ chunkX = Min21

\* the files Combine reads rows from: those named *.bin under root, other
\* than the planted ones
WellFormedBins(fs, root) ==
    {p \in DOMAIN fs.files :
        IsUnder(<<root>>, p) /\ HasSuffix(Base(p), BinExt) /\ p \notin Malformed}

C11_WitnessFailure ==
    /\ treePc = "combined" /\ treeErr # "nil"
    /\ ShortHexBin \in DOMAIN tree.files

\* the step of the cycle that makes a call
StepOf(call) ==
    CASE call = "HasBooted" -> "BootGate"
      [] call = "ShouldBackup" -> "PlayerGate"
      [] call = "ReadFile" -> "SaveName"
      [] call = "SendCommand" -> "Trigger"
      [] call \in {"WaitForBackupComplete", "ReadDir"} -> "AwaitFile"
      [] call = "Sync" -> "Stage"
      [] call \in {"SplitWithCache", "Remove"} -> "Convert"
      [] call \in {"ResticRunner", "Getenv", "restic cat config", "restic init",
                   "restic backup"} -> "Snapshot"
      [] call \in {"PruneRunner", "restic forget"} -> "Prune"

\* the calls of the steps named in order were made in that order
InOrder(order) ==
    \A i, j \in 1 .. Len(log) :
        (/\ i < j
         /\ \E k \in 1 .. Len(order) : order[k] = StepOf(log[i])
         /\ \E k \in 1 .. Len(order) : order[k] = StepOf(log[j]))
            => IndexIn(order, StepOf(log[i])) <= IndexIn(order, StepOf(log[j]))

\* C12 as stated: the steps of one cycle run one after the other in the order
\* BootGate, PlayerGate, Trigger, AwaitFile, Convert, Stage, Snapshot, Prune.
C12_StepsInStatedOrder ==
    InOrder(<<"BootGate", "PlayerGate", "Trigger", "AwaitFile", "Convert",
              "Stage", "Snapshot", "Prune">>)

\* C12 amended: the steps of one cycle run one after the other in the order
\* BootGate, PlayerGate, reading the save file name, Trigger, AwaitFile,
\* Stage, Convert, Snapshot, Prune: no call of a step is made before every
\* call of the earlier steps has returned.
C12_StepsInSourceOrder ==
    InOrder(<<"BootGate", "PlayerGate", "SaveName", "Trigger", "AwaitFile",
              "Stage", "Convert", "Snapshot", "Prune">>)

\* a cycle with every collaborator configured ran to the end
C12_Witness ==
    /\ cyclePc = "done" /\ cycleErr = "nil"
    /\ log = <<"HasBooted", "ShouldBackup", "ReadFile", "SendCommand",
               "WaitForBackupComplete", "ReadDir", "Sync", "Sync", "Sync",
               "Sync", "Sync", "SplitWithCache", "Remove", "Getenv",
               "restic cat config", "restic backup", "restic forget">>

InLog(call) == \E i \in 1 .. Len(log) : log[i] = call
CountInLog(call) == Cardinality({i \in 1 .. Len(log) : log[i] = call})
Failed == cycleErr \notin {"pending", "nil"}
PassedGates == cycleErr \notin {ErrServerNotBooted, ErrNoPlayersOnline}

\* the call that fails when performBackup returns e
FailingCalls(e) ==
    CASE e = ErrServerNotBooted -> {"HasBooted"}
      [] e = ErrNoPlayersOnline -> {"ShouldBackup"}
      [] e = "failed to get save file name" -> {"ReadFile"}
      [] e = "failed to send genbackup command" -> {"SendCommand"}
      [] e = "failed to wait for backup file" ->
             {"SendCommand", "WaitForBackupComplete", "ReadDir"}
      [] e = "failed to update staging directory" ->
             {"Sync", "SplitWithCache", "Remove"}
      [] e = "failed to run restic backup" ->
             {"ResticRunner", "Getenv", "restic cat config", "restic init",
              "restic backup"}
      [] e = "failed to run restic prune" -> {"PruneRunner", "restic forget"}

C14_NotBootedAbortsFirst ==
    (config.BootChecker = "false" /\ cyclePc # "BootGate") =>
        /\ cyclePc = "done" /\ cycleErr = ErrServerNotBooted
        /\ log = <<"HasBooted">>
        /\ \E sur \in Surroundings :
              backups = sur.backups /\ staging = sur.staging

\* the cycle was aborted although a player checker that reports false was
\* configured as well
C14_Witness ==
    /\ cyclePc = "done" /\ cycleErr = ErrServerNotBooted
    /\ ~config.skipPlayerCheck /\ config.PauseWhenNoPlayers
    /\ config.PlayerChecker = "false"

PlayerCheckApplies ==
    ~config.skipPlayerCheck /\ config.PauseWhenNoPlayers
        /\ config.PlayerChecker # "nil"

\* C15: past the boot gate, when the player check is not skipped,
\* pause-when-idle is on and a player checker is configured, ShouldBackup is
\* called once and the cycle returns ErrNoPlayersOnline, no command sent,
\* exactly when it returned false; otherwise ShouldBackup is not called and
\* the cycle goes on to read the save file name.
C15_PlayerGate ==
    (config.BootChecker # "false" /\ cyclePc \notin {"BootGate", "PlayerGate"}) =>
        IF PlayerCheckApplies
          THEN /\ CountInLog("ShouldBackup") = 1
               /\ (cycleErr = ErrNoPlayersOnline) <=> (config.PlayerChecker = "false")
               /\ config.PlayerChecker = "false" =>
                     (cyclePc = "done" /\ ~InLog("ReadFile") /\ ~InLog("SendCommand"))
               /\ config.PlayerChecker = "true" =>
                     (cyclePc = "getSaveFileName" \/ InLog("ReadFile"))
        ELSE /\ ~InLog("ShouldBackup")
             /\ cycleErr # ErrNoPlayersOnline
             /\ cyclePc = "getSaveFileName" \/ InLog("ReadFile")

\* a boot-triggered run went past a player checker that reports false
C15_Witness ==
    /\ config.skipPlayerCheck /\ config.PauseWhenNoPlayers
    /\ config.PlayerChecker = "false"
    /\ InLog("SendCommand") /\ ~InLog("ShouldBackup")

\* C16 as stated: a cycle that passes the gates records the trigger time and
\* then sends exactly one /genbackup command, and does not read the Backups
\* directory before the command is sent and the completion wait, if one is
\* configured, has returned.
C16_PassedGatesSendsOneCommand ==
    /\ (cyclePc = "done" /\ PassedGates) =>
          (CountInLog("SendCommand") = 1 /\ beforeGenbackup >= 1)
    /\ \A i \in 1 .. Len(log) : log[i] = "ReadDir" =>
          /\ \E j \in 1 .. i - 1 : log[j] = "SendCommand"
          /\ config.BackupCompletionWaiter =>
                \E j \in 1 .. i - 1 : log[j] = "WaitForBackupComplete"

\* C16 amended: a cycle that passes the gates first reads the save file name
\* from serverconfig.json; if that fails it returns without sending a
\* command, otherwise it records the trigger time and then sends exactly one
\* /genbackup command; the Backups directory is not read before the command
\* is sent and the completion wait, if one is configured, has returned.
C16_SaveNameThenOneCommand ==
    /\ (cyclePc = "done" /\ PassedGates) =>
          IF cycleErr = "failed to get save file name"
            THEN CountInLog("SendCommand") = 0 /\ beforeGenbackup = 0
          ELSE /\ CountInLog("SendCommand") = 1
               /\ beforeGenbackup >= 1 /\ beforeGenbackup <= now
               /\ \E j \in 1 .. Len(log) - 1 :
                     log[j] = "ReadFile" /\ log[j + 1] = "SendCommand"
    /\ \A i \in 1 .. Len(log) : log[i] = "ReadDir" =>
          /\ \E j \in 1 .. i - 1 : log[j] = "SendCommand"
          /\ config.BackupCompletionWaiter =>
                \E j \in 1 .. i - 1 : log[j] = "WaitForBackupComplete"

\* a cycle with a completion waiter polled the Backups directory and ended
C16_Witness ==
    /\ cyclePc = "done" /\ cycleErr = "nil"
    /\ config.BackupCompletionWaiter
    /\ CountInLog("SendCommand") = 1
    /\ InLog("ReadDir")

C18_NoStepAfterContextDone ==
    [][(cyclePc = "Poll" /\ ctxDone) =>
          /\ cyclePc' \in {"Poll", "done"}
          /\ cyclePc' = "done" => cycleErr' = "failed to wait for backup file"]_vars

\* C19: when updateStagingDirectory converts the accepted file, the file is
\* gone from the Backups directory after a successful conversion and is left
\* as it was when the split fails; nothing else removes it.
C19_BackupFileRemovedIffConverted ==
    [][/\ (cyclePc = "Convert" /\ cyclePc' = "Snapshot") =>
             (backupFile \in DOMAIN backups /\ backupFile \notin DOMAIN backups')
       /\ (cyclePc = "Convert" /\ log'[Len(log')] = "SplitWithCache") =>
             (backupFile \in DOMAIN backups /\ backups' = backups)
       /\ (backupFile \in DOMAIN backups /\ backupFile \notin DOMAIN backups') =>
             (cyclePc = "Convert" /\ cyclePc' = "Snapshot"
                 /\ staging'["Saves"] = "current")]_vars

\* the accepted file was converted and is gone; the older backup is still
\* there
C19_Witness ==
    /\ cyclePc \in {"Snapshot", "Prune", "done"}
    /\ backupFile = NewBackup
    /\ NewBackup \notin DOMAIN backups
    /\ "a-old.vcdbs" \in DOMAIN backups
    /\ staging["Saves"] = "current"

\* C20: staging mirrors Logs, Playerdata, Mods, serverconfig.json and
\* servermagicnumbers.json into the staging root, and a cycle does not fail
\* at an item that is absent from the game data directory.
C20_AbsentItemsDoNotFailCycle ==
    /\ cyclePc \in {"Convert", "Snapshot", "Prune"} =>
          \A i \in 1 .. Len(SyncItems) :
              Present(gameData, SyncItems[i]) => staging[SyncItems[i]] = "current"
    /\ (Failed /\ log[Len(log)] = "Sync") =>
          Present(gameData, SyncItems[CountInLog("Sync")])
    /\ (Failed /\ log[Len(log)] = "ReadFile") =>
          Present(gameData, "serverconfig.json")

Subcommand(i) == commands[i].argv[2]
RanAt(sub) == {i \in 1 .. Len(commands) : Subcommand(i) = sub}
Succeeded(i) == commands[i].exitCode = 0 /\ ~commands[i].err

\* C21: runRestic probes the repository with "restic cat config" before
\* anything else; exit code 0 runs no "restic init"; exit code 10 runs
\* "restic init" exactly once, right after the probe; any other exit code of
\* the probe, or an init that fails, ends the cycle with the error of the
\* snapshot step and no "restic backup"; "restic backup" is run at most once,
\* right after a probe that ended with 0 or an init that succeeded. (A
\* Manager with a ResticRunner hands the whole step to it and runs none of
\* the three commands.)
C21_ProbeInitSnapshot ==
    IF config.ResticRunner
      THEN RanAt("cat") \cup RanAt("init") \cup RanAt("backup") = {}
    ELSE (commands # << >>) =>
        /\ Subcommand(1) = "cat"
        /\ RanAt("cat") = {1}
        /\ commands[1].exitCode = 0 => RanAt("init") = {}
        /\ commands[1].exitCode = ExitUninitialized => RanAt("init") = {2}
        /\ commands[1].exitCode \notin {0, ExitUninitialized} =>
              /\ RanAt("init") = {} /\ RanAt("backup") = {}
              /\ cyclePc = "done" /\ cycleErr = "failed to run restic backup"
        /\ \A i \in RanAt("init") :
              ~Succeeded(i) =>
                  /\ RanAt("backup") = {}
                  /\ cyclePc = "done" /\ cycleErr = "failed to run restic backup"
        /\ \A i \in RanAt("backup") :
              /\ i > 1
              /\ \/ Subcommand(i - 1) = "cat" /\ commands[i - 1].exitCode = 0
                 \/ Subcommand(i - 1) = "init" /\ Succeeded(i - 1)
        /\ Cardinality(RanAt("backup")) <= 1

\* the probe found no repository, the repository was initialized and the
\* snapshot was taken
C21_Witness ==
    /\ Len(commands) >= 3
    /\ commands[1].exitCode = ExitUninitialized
    /\ Subcommand(2) = "init" /\ Succeeded(2)
    /\ Subcommand(3) = "backup" /\ Succeeded(3)
    /\ cycleErr = "nil"

SnapshotSucceeded ==
    cyclePc \in {"Prune", "done"}
        /\ cycleErr \in {"pending", "nil", "failed to run restic prune"}
PruneInvoked == InLog("restic forget") \/ InLog("PruneRunner")

\* C22: a finished cycle has invoked the prune (the command "restic forget"
\* or, when one is set, the PruneRunner in its place) exactly when a
\* retention policy is configured and the snapshot of the cycle succeeded; the
\* command is "restic forget", the words of the policy, "--prune", run once;
\* with no policy nothing is invoked after the snapshot and the cycle
\* returns nil.
C22_PruneIffPolicyAndSnapshot ==
    (cyclePc = "done") =>
        /\ PruneInvoked <=> (config.PruneRetention # << >> /\ SnapshotSucceeded)
        /\ InLog("restic forget") => ~config.PruneRunner
        /\ InLog("PruneRunner") => config.PruneRunner
        /\ Cardinality(RanAt("forget")) = CountInLog("restic forget")
        /\ CountInLog("restic forget") + CountInLog("PruneRunner") <= 1
        /\ \A i \in RanAt("forget") :
              /\ i = Len(commands)
              /\ commands[i].argv =
                    <<"restic", "forget", "--keep-daily", "7", "--prune">>
        /\ (config.PruneRetention = << >> /\ SnapshotSucceeded) =>
              /\ cycleErr = "nil"
              /\ StepOf(log[Len(log)]) = "Snapshot"

\* a cycle with a policy has run "restic forget --keep-daily 7 --prune"
\* after its snapshot
C22_Witness ==
    /\ cyclePc = "done" /\ cycleErr = "nil"
    /\ config.PruneRetention = Policy
    /\ RanAt("backup") # {} /\ RanAt("forget") = {Len(commands)}

\* a cycle without a policy has ended with nil right after its snapshot
C22_WitnessNoPolicy ==
    /\ cyclePc = "done" /\ cycleErr = "nil"
    /\ config.PruneRetention = << >>
    /\ log[Len(log)] = "restic backup"

InProgress(i) == cycles[i].pc # "returned"
CompleteCalls(i) ==
    {k \in 1 .. Len(callbacks) :
        callbacks[k].fn = "OnBackupComplete" /\ callbacks[k].cycle = i}

\* C23: at most one cycle started by the loop is in progress at any time,
\* and the loop starts a cycle only when every cycle it started earlier has
\* returned, whatever the ticker does meanwhile.
C23_LoopCyclesDoNotOverlap ==
    /\ [](Cardinality({i \in LoopCycles : InProgress(i)}) <= 1)
    /\ [][Len(cycles') > Len(cycles) /\ cycles'[Len(cycles')].by = "runLoop"
            => \A i \in LoopCycles : ~InProgress(i)]_vars

\* a tick arrived while a cycle was running, and the second cycle of the
\* loop was started only after the first had returned
C23_Witness ==
    /\ Cardinality(LoopCycles) = 2
    /\ \E i, j \in LoopCycles :
          i < j /\ cycles[i].pc = "returned" /\ InProgress(j)
    /\ ticker

\* C24: at no time are two invocations of performBackup inside
\* updateStagingDirectory, writing the staging directory.
C24_SingleWriter ==
    Cardinality({i \in 1 .. Len(cycles) :
                    cycles[i].pc = "updateStagingDirectory"}) <= 1

\* C25: every invocation that has returned, whether the loop started it or
\* RunBackupNow, was reported by exactly one call of OnBackupComplete, with
\* the error it returned.
C25_EveryOutcomeReportedOnce ==
    \A i \in 1 .. Len(cycles) :
        cycles[i].pc = "returned" =>
            /\ Cardinality(CompleteCalls(i)) = 1
            /\ \A k \in CompleteCalls(i) : callbacks[k].err = cycles[i].err

\* C26: the loop returns only when its context is cancelled; when a cycle has
\* returned, with whatever error, the loop is back at its select; and a tick
\* that the loop finds there leads to the next cycle unless the context is
\* cancelled first.
C26_LoopSurvivesFailedCycles ==
    /\ [](loopPc = "exited" => cancelled)
    /\ [](loopPc = "select" <=>
            (loopPc # "exited" /\ \A i \in LoopCycles : ~InProgress(i)))
    /\ \A n \in 0 .. MaxCycles - 1 :
          (loopPc = "select" /\ ticker /\ Cardinality(LoopCycles) = n)
              ~> (Cardinality(LoopCycles) > n \/ cancelled)

\* the first cycle was skipped because nobody was online, and the loop has
\* started the next one
C26_Witness ==
    /\ Cardinality(LoopCycles) = 2
    /\ \E i, j \in LoopCycles :
          /\ i < j
          /\ cycles[i].pc = "returned" /\ cycles[i].err = ErrNoPlayersOnline
          /\ InProgress(j)
    /\ loopPc = "runBackup" /\ ~cancelled

\* what a run without failure on src leaves in a cache directory that was
\* empty
FreshCache(src) ==
    SplitWithCacheRun(StrayCache({}), CHOOSE ord \in RowOrders(src) : TRUE,
                      NoFault, 1).fs
BytesOf(fs, paths) == [q \in paths |-> fs.files[q].data]
BinFiles(fs) == {q \in ManagedFiles(fs) : HasSuffix(Base(q), BinExt)}

\* a run has succeeded on a cache directory that an earlier run, aborted by
\* an I/O failure, had left partially updated
HealedAfterFailure == runs >= 2 /\ faults >= 1 /\ err = "nil"

\* C27 as stated: the first successful run after an aborted one leaves the
\* cache directory exactly as a run on the same source into an empty
\* directory leaves it: the same files with the same bytes and the same
\* directories (for a cache directory that held nothing foreign at the
\* start).
C27_HealedEqualsFresh ==
    (HealedAfterFailure /\ ForeignFile \notin DOMAIN cache.files) =>
        /\ BytesOf(cache, DOMAIN cache.files)
              = BytesOf(FreshCache(lastDb), DOMAIN FreshCache(lastDb).files)
        /\ cache.dirs = FreshCache(lastDb).dirs

\* C27 amended: after the first successful run following an aborted one the
\* *.bin files under the managed roots are, by path and bytes, exactly
\* those of a run on the same source into an empty directory; every
\* directory of the fresh result exists; and a directory the fresh result
\* lacks is a managed root directory or holds a file of another name.
C27_HealedBinFilesEqualFresh ==
    HealedAfterFailure =>
        /\ BytesOf(cache, BinFiles(cache))
              = BytesOf(FreshCache(lastDb), BinFiles(FreshCache(lastDb)))
        /\ FreshCache(lastDb).dirs \subseteq cache.dirs
        /\ \A d \in cache.dirs \ FreshCache(lastDb).dirs :
              \/ Len(d) = 1 /\ d[1] \in rootDirs
              \/ \E q \in DOMAIN cache.files :
                    IsUnder(d, q) /\ ~HasSuffix(Base(q), BinExt)

\* the aborted run had created chunks/ for a row that the server deleted
\* before the successful run: the root directory is still there, empty
C27_Witness ==
    /\ HealedAfterFailure
    /\ ForeignFile \notin DOMAIN cache.files
    /\ BinFiles(cache) # {}
    /\ <<"chunks">> \in cache.dirs \ FreshCache(lastDb).dirs

\* C28: a call of ShouldBackup returns true whenever a player is present;
\* with nobody present it returns true on the first call after the last
\* player has departed, that is when a player has been present since the
\* call before, and false on every later call while the server stays empty.
C28_FinalBackupAfterEveryDeparture ==
    \A i \in 1 .. Len(results) :
        results[i].returned = (results[i].online \/ results[i].visited)

\* C29: the tracked player count changes only on a line that has no
\* "[Server Chat]" in it, has exactly one "[Server Event]" marker and ends
\* with "joins." or "left."; a line with chat text or with more than one
\* marker never changes the count.
C29_OnlySingleMarkerEventLinesCount ==
    [][playerCount' # playerCount =>
          /\ \A i \in 1 .. Len(line') : line'[i] # serverChatPrefix
          /\ \E i \in 1 .. Len(line') :
                /\ line'[i] = serverEventMarker
                /\ \A j \in 1 .. Len(line') :
                      line'[j] = serverEventMarker => j = i
          /\ Len(line') > 0
          /\ line'[Len(line')] \in {"joins.", "left."}]_vars

\* a chat line that quotes a departure was handled with every counted player
\* still counted
C29_Witness ==
    /\ playerCount = MaxPlayers
    /\ line = <<serverChatPrefix, serverEventMarker, "left.">>

\* where a command stands in the order the queue channels accepted them
PosAccepted(cmd) ==
    CHOOSE i \in 1 .. Len(accepted) : accepted[i].cmd = cmd
WasSent(cmd) == \E i \in 1 .. Len(sends) : sends[i].cmd = cmd
Sending == {g \in Generations : loops[g].pc = "sending"}

\* C30: the commands the queue accepted reach the sender in the order they
\* were submitted: each send is of an accepted command and a later send is
\* of a later submission; at most one send is under way at a time; one send
\* and the next are at least MinDelay apart; and every command accepted
\* before Stop has been sent when the loop has exited.
C30_OrderedOneAtATimeRateLimited ==
    /\ \A i \in 1 .. Len(sends) :
          \E j \in 1 .. Len(accepted) : accepted[j].cmd = sends[i].cmd
    /\ \A i, j \in 1 .. Len(sends) :
          i < j => PosAccepted(sends[i].cmd) < PosAccepted(sends[j].cmd)
    /\ Cardinality(Sending) <= 1
    /\ \A i \in 1 .. Len(sends) - 1 : sends[i + 1].at - sends[i].at >= MinDelay
    /\ \A j \in 1 .. Len(accepted) :
          (~accepted[j].late /\ loops[accepted[j].gen].pc = "exited")
              => WasSent(accepted[j].cmd)

\* the loop slept: two commands of the two submitters were sent exactly the
\* default delay apart, the second after it was submitted
C30_Witness ==
    /\ Len(sends) >= 2
    /\ MinDelay = DefaultMinCommandDelay
    /\ sends[2].at - sends[1].at = MinDelay
    /\ Len(accepted) >= 2
    /\ accepted[1].cmd = sends[1].cmd
    /\ accepted[2].cmd = sends[2].cmd
    /\ accepted[1].cmd > accepted[2].cmd

\* Stop has been called and has returned
StopReturned == gen >= 1 /\ ~started /\ ctl = "idle"

\* C31: whatever the interleaving of Submit and Stop, every command that
\* Submit put into the queue has been sent to the sender when Stop has
\* returned.
C31_StopReturnsAfterAllAcceptedSent ==
    StopReturned =>
        \A j \in 1 .. Len(accepted) : WasSent(accepted[j].cmd)

SyncSucceeded == syncRet.called /\ syncRet.err = "nil"

\* the files SyncDir found below dst that are not below src
StaleFiles == DOMAIN syncOld.files \ DOMAIN syncSrc.files

\* C32: after a successful SyncDir the regular files below dst are the
\* files below src, path by path and byte by byte; a file that was already
\* equal has not been written; the removed count is the number of stale
\* files; and no directory below dst that a removal emptied remains.
C32_SyncDirMirrorsAndPrunes ==
    SyncSucceeded =>
        /\ DOMAIN syncDst.files = DOMAIN syncSrc.files
        /\ \A q \in DOMAIN syncSrc.files :
              /\ syncDst.files[q].data = syncSrc.files[q].data
              /\ (q \in DOMAIN syncOld.files
                    /\ syncOld.files[q].data = syncSrc.files[q].data)
                    => syncDst.files[q].mtime = 0
        /\ syncRet.removed = Cardinality(StaleFiles)
        /\ \A d \in syncDst.dirs \ {<< >>} :
              Entries(syncDst, d) = {} => ~\E q \in StaleFiles : IsUnder(d, q)

\* C33: OnBoot is called at most once, whatever lines with the boot pattern
\* the two streams deliver, and exactly once when a call of bootOnce.Do has
\* returned; HasBooted() is true when it is called; and HasBooted(), once
\* true, stays true.
C33_BootFiresOnce ==
    /\ [](/\ Len(onBootCalls) <= 1
          /\ bootOnce = "done" => Len(onBootCalls) = 1
          /\ \A i \in 1 .. Len(onBootCalls) : onBootCalls[i].HasBooted)
    /\ [][booted => booted']_vars

\* OnBoot has been called from one stream and the other stream has read a
\* line with the boot pattern since
C33_Witness ==
    /\ Len(onBootCalls) = 1
    /\ \E r \in Streams :
          /\ readers[r].pc = "bootOnce.Do"
          /\ onBootCalls[1].by # r

\* the invocations of performBackup that have not returned yet
Executing ==
    {i \in 1 .. Len(cycles) : cycles[i].pc \notin {"performed", "returned"}}

\* C34: when Manager.Stop has returned, the scheduling loop has exited,
\* which closes the Done() channel, and no backup cycle of the manager is
\* still executing.
C34_StopWaitsForEveryCycle ==
    [][(stopPc # "returned" /\ stopPc' = "returned")
          => (loopPc' = "exited" /\ Executing' = {})]_vars

\* the calls of ShouldBackup that were the first after the count of players
\* had dropped to zero
FirstAfterDeparture ==
    {i \in 1 .. Len(results) : results[i].visited /\ ~results[i].online}

\* C35: the first call of ShouldBackup after the player count has dropped
\* to zero returns true.
C35_DepartureGetsFinalBackup ==
    \A i \in FirstAfterDeparture : results[i].returned

\* C36: a SplitWithCache run that fails while the rows of the tables are
\* read and written removes no file, and no failed run removes the file of
\* a row that is in the source with data.
C36_FailedRunKeepsFiles ==
    [][(runs' = runs + 1 /\ err' # "nil") =>
          /\ err' # "remove" => DOMAIN cache.files \subseteq DOMAIN cache'.files
          /\ \A q \in NonNullPaths(db) :
                q \in DOMAIN cache.files => q \in DOMAIN cache'.files]_vars

\* a run failed in a write and a *.bin file of the cache that has no row in
\* the source, which the cleanup would have removed, is still there
C36_Witness ==
    /\ runs >= 1
    /\ err = "write"
    /\ \E q \in ManagedFiles(cache) :
          /\ HasSuffix(Base(q), BinExt)
          /\ q \notin NonNullPaths(lastDb)

\* WaitForBackupComplete was called and has returned
WaitReturned ==
    waitPc = "returned" /\ waitRet # "failed to send genbackup command"

\* C37: if the server, still running, printed the completion line after the
\* cycle sent its command and before the wait timed out, the cycle's
\* WaitForBackupComplete returns success.
C37_CompletionNeverMissed ==
    (WaitReturned /\ completed /\ ~serverDone) => waitRet = "nil"

\* the command could not be delivered: the cycle is past its SendCommand
\* and nothing was written to the server
Undelivered == waitPc # "SendCommand" /\ ~delivered

\* C38 as stated: when the command cannot be delivered, the cycle returns
\* the send error at the Trigger step and never enters the wait.
C38_UndeliveredFailsAtTrigger ==
    Undelivered =>
        (waitPc = "returned" /\ waitRet = "failed to send genbackup command")

\* C38: when the sender is the Server itself and the command cannot be
\* delivered, the cycle returns the send error at the Trigger step and never
\* enters the wait.
C38_ServerSendErrorFailsAtTrigger ==
    (sender = "Server" /\ Undelivered) =>
        (waitPc = "returned" /\ waitRet = "failed to send genbackup command")

\* the server was not running when the cycle called its SendCommand
C38_Witness ==
    /\ sender = "Server"
    /\ Undelivered
    /\ waitRet = "failed to send genbackup command"
    /\ serverDone

\* the calls of ShouldBackup that returned true for the final backup and
\* whose cycle then failed
FailedFinal ==
    {i \in 1 .. Len(results) :
        /\ ~results[i].online
        /\ results[i].returned
        /\ \E k \in 1 .. Len(callbacks) :
              /\ callbacks[k].cycle = i
              /\ callbacks[k].err \in CycleOutcomes \ {"nil"}}

\* the later calls made while nobody has been online since call i
StillEmptyAfter(i) ==
    {j \in i + 1 .. Len(results) :
        \A k \in i + 1 .. j : ~results[k].online /\ ~results[k].visited}

\* C39: if ShouldBackup returned true for the final backup after the last
\* player left and that cycle failed, a later tick made while the server is
\* still empty attempts the backup again: of the ticks that followed with
\* nobody online since, one passed the player gate.
C39_FailedFinalBackupIsRetried ==
    \A i \in FailedFinal :
        StillEmptyAfter(i) # {} =>
            \E j \in StillEmptyAfter(i) : results[j].returned

\* C40: backup files do not accumulate: every .vcdbs file the server
\* generates in the Backups directory in response to a cycle's /genbackup is
\* eventually removed, by that cycle or by a later one, also when its cycle
\* failed or timed out before the conversion was complete.
C40_GeneratedFilesAreRemoved ==
    \A n \in GeneratedNames :
        (n \in DOMAIN backups) ~> (n \notin DOMAIN backups)

=============================================================================
